---- MODULE Spec2Model ----
(***************************************************************************)
(* A model of github.com/256dpi/fpack: the generation-tagged Pool and its  *)
(* Refs (pool.go), the two-pass Encoder (encode.go) and the Decoder        *)
(* (decode.go), the chunked Buffer (buffer.go) and the Arena (arena.go).   *)
(***************************************************************************)
EXTENDS Integers, Sequences, FiniteSets, TLC

(***************************************************************************)
(* Bounds of the model.                                                    *)
(***************************************************************************)
\* the shared generation counter is a uint64; the model counts modulo GenMod
GenMod == 8
\* pooled borrows per run
MaxRefs == 3
\* buffer descriptors ever created by the sync.Pool New functions
MaxBufs == 2
\* Release calls made on one Ref
MaxCalls == 2
\* pooled borrows per capacity run
CapRefs == 1
\* pooled borrows per concurrent run
ConcRefs == 2
\* goroutines using the pool concurrently
NumThreads == 2
\* calls a callback makes at most
MaxOps == 2
\* reads a decoding callback makes at most
MaxReads == 2
\* what every byte of a recycled slice holds before it is written
StaleByte == 170

(***************************************************************************)
(* Program constants.                                                      *)
(***************************************************************************)
\* number of size classes
NumPools == 16
\* the smallest class is 1 << ClassShift bytes
ClassShift == 10
\* lengths below MinPooled are allocated
MinPooled == 9

VARIABLES
    pool,    \* the Pool: gen (the shared counter), pools (the 16 free-lists)
    heap,    \* the buffer descriptors: gen, pool (class number), size
    refs,    \* the Refs handed out: gen, buf; held and calls are history
    last,    \* the last completed call: a Borrow, a Release or a Decode
    th,      \* the goroutines of the concurrent callers
    call,    \* the arguments of the Encode call: pool, withBuf, buf
    cb,      \* the callback: what it does at each of its steps in either pass
    epc,     \* where encode() is: "count", "write", "done", "panic"
    ecur,    \* the step the callback is at in the writing pass
    enc,     \* the Encoder: bo, len, buf (nil, off into mem), err
    eres,    \* what encode() returned: data, n, ref, err
    dpc,     \* where Decode is: "idle", "run", "done", "panic"
    dcur,    \* the step the decoding callback is at
    dec,     \* the Decoder: bo, buf (the bytes not read yet), err
    got,     \* the values the decoding callback has read
    dres,    \* what Decode returned
    loc,     \* the local variables of encode(): length, ref
    bf,      \* the Buffer: alloc, offset, length, chunks, mutex
    bcall,   \* the last Buffer call that returned: its arguments and results
    marks,   \* the positions of the Buffer that a write has been given to fill
    bth,     \* the goroutines that call the Buffer concurrently
    ar,      \* the Arena: size, len, buf, refs, and the chunks it borrowed
    frags    \* the fragments Get and Clone have returned, in order

poolVars == <<pool, heap, refs>>

decVars == <<dpc, dcur, dec, got, dres>>

storeVars == <<bf, bcall, marks, bth, ar, frags>>

codecVars ==
    <<call, cb, epc, ecur, enc, eres, dpc, dcur, dec, got, dres, loc, storeVars>>

vars == <<pool, heap, refs, last, th, call, cb, epc, ecur, enc, eres, dpc, dcur,
          dec, got, dres, loc, bf, bcall, marks, bth, ar, frags>>

(***************************************************************************)
(* pool.go                                                                 *)
(***************************************************************************)

RECURSIVE Len64(_)
\* math/bits.Len64: the number of bits needed to represent x
Len64(x) == IF x = 0 THEN 0 ELSE 1 + Len64(x \div 2)

\* NewPool: the New function of size class num
NewBuffer(num) == [gen |-> 0, pool |-> num, size |-> 2 ^ (num + ClassShift)]

\* NewPool: 16 empty free-lists, the counter at zero
NewPool == [gen |-> 0, pools |-> [i \in 0 .. (NumPools - 1) |-> <<>>]]

\* the zero Ref
zeroRef == [gen |-> 0, buf |-> 0]

\* Borrow: "determine pool"
PoolIndex(len) ==
    LET raw == Len64(len) - ClassShift
    IN  IF raw < 0 THEN 0 ELSE IF raw >= NumPools THEN -1 ELSE raw

\* Borrow: "allocate if too small or too big"
Allocates(len) == len < MinPooled \/ PoolIndex(len) = -1

\* atomic.AddUint64(&p.gen, 1)
AddGen(p) == [p EXCEPT !.gen = (@ + 1) % GenMod]

\* Borrow: "get next non zero generation", both atomic adds in one step
NextGen(p) == IF AddGen(p).gen = 0 THEN AddGen(AddGen(p)) ELSE AddGen(p)

\* what sync.Pool.Get of class num may return: the position of a descriptor in
\* the free-list, or 0 for a descriptor made by New
GetChoices(p, h, num) ==
    (1 .. Len(p.pools[num])) \cup (IF Len(h) < MaxBufs THEN {0} ELSE {})

RemoveAt(s, j) == SubSeq(s, 1, j - 1) \o SubSeq(s, j + 1, Len(s))

PoolTakeKeeps(p, num, c) == p

\* sync.Pool.Get, the free-list after choice c
PoolTake(p, num, c) ==
    IF c = 0 THEN p ELSE [p EXCEPT !.pools[num] = RemoveAt(@, c)]

\* sync.Pool.Get, the descriptor returned by choice c
GotBuf(p, h, num, c) == IF c = 0 THEN Len(h) + 1 ELSE p.pools[num][c]

\* sync.Pool.Get, the descriptors after choice c
HeapGet(h, num, c) == IF c = 0 THEN Append(h, NewBuffer(num)) ELSE h

SetGenSkips(h, b, gen) == h

\* Borrow: "set generation"
SetGen(h, b, gen) == [h EXCEPT ![b].gen = gen]

GenMatchesAlways(bufGen, refGen) == TRUE

\* Release: atomic.CompareAndSwapUint64(&r.buf.gen, r.gen, 0) succeeds
GenMatches(bufGen, refGen) == bufGen = refGen

ClearGenKeeps(h, b) == h

\* Release: the compare-and-swap stored zero
ClearGen(h, b) == [h EXCEPT ![b].gen = 0]

PoolPutDrops(p, h, b) == p

\* Release: "recycle buffer"
PoolPut(p, h, b) == [p EXCEPT !.pools[h[b].pool] = Append(@, b)]

\* the lengths the capacity runs borrow: around the allocation threshold and
\* around every size class boundary
Lens ==
    {0, 7, 8, 9, 77, 123, 777}
        \cup UNION {{2 ^ (k + ClassShift) - 1, 2 ^ (k + ClassShift),
                     2 ^ (k + ClassShift) + 1, 777 * 2 ^ k} : k \in 0 .. NumPools}

\* the lengths the other runs borrow: one allocated, two of the first size
\* class, one of the second
FewLens == {7, 77, 123, 1500}

NoCall == [op |-> "none"]

PoolInit ==
    /\ pool \in {[NewPool EXCEPT !.gen = g] : g \in {0, GenMod - 1}}
    /\ heap = <<>>
    /\ refs = <<>>
    /\ last = NoCall

(***************************************************************************)
(* The sequential caller: whole calls of Borrow and Release.               *)
(***************************************************************************)

\* Pool.Borrow(len, zero) with len too small or too big: make([]byte, len), Ref{}
BorrowAlloc(S) ==
    \E len \in S :
        /\ Allocates(len)
        /\ last' = [op |-> "Borrow", len |-> len, slen |-> len, scap |-> len,
                    ref |-> zeroRef]
        /\ UNCHANGED <<pool, heap, refs, th>>
        /\ UNCHANGED codecVars

\* Pool.Borrow(len, zero) with a pooled len, sync.Pool.Get making choice c: the
\* Pool and the descriptors after the call, the Ref and the capacity of the
\* slice returned
Borrowed(p, h, len, c) ==
    LET num == PoolIndex(len)
        p1 == NextGen(p)
        b == GotBuf(p1, h, num, c)
        h1 == SetGen(HeapGet(h, num, c), b, p1.gen)
    IN  [pool |-> PoolTake(p1, num, c), heap |-> h1,
         ref |-> [gen |-> p1.gen, buf |-> b], scap |-> h1[b].size]

\* a Ref handed out, with its history
Lent(ref) == [gen |-> ref.gen, buf |-> ref.buf, held |-> TRUE, calls |-> 0]

\* Pool.Borrow(len, zero) with a pooled len
Borrow(S, max) ==
    /\ Len(refs) < max
    /\ \E len \in S :
        /\ ~Allocates(len)
        /\ \E c \in GetChoices(NextGen(pool), heap, PoolIndex(len)) :
            LET r == Borrowed(pool, heap, len, c)
            IN  /\ pool' = r.pool
                /\ heap' = r.heap
                /\ refs' = Append(refs, Lent(r.ref))
                /\ last' = [op |-> "Borrow", len |-> len, slen |-> len,
                            scap |-> r.scap, ref |-> r.ref]
    /\ UNCHANGED th
    /\ UNCHANGED codecVars

\* Ref{}.Release(): "treat zero refs as no-ops"
ReleaseZero ==
    /\ last' = [op |-> "Release", ref |-> zeroRef, panic |-> "", prior |-> 0,
                bufGen |-> 0]
    /\ UNCHANGED <<pool, heap, refs, th>>
    /\ UNCHANGED codecVars

\* Ref.Release() of a non-zero Ref: whether it panics, and the Pool and the
\* descriptors after the call
Released(p, h, ref) ==
    IF GenMatches(h[ref.buf].gen, ref.gen)
    THEN [panic |-> "", heap |-> ClearGen(h, ref.buf), pool |-> PoolPut(p, h, ref.buf)]
    ELSE [panic |-> "fpack: generation mismatch", heap |-> h, pool |-> p]

\* refs[i].Release()
Release(i) ==
    LET ref == [gen |-> refs[i].gen, buf |-> refs[i].buf]
        r == Released(pool, heap, ref)
    IN  /\ refs[i].calls < MaxCalls
        /\ pool' = r.pool
        /\ heap' = r.heap
        /\ refs' = [refs EXCEPT ![i].held = @ /\ r.panic # "", ![i].calls = @ + 1]
        /\ last' = [op |-> "Release", ref |-> ref, panic |-> r.panic,
                    prior |-> refs[i].calls, bufGen |-> heap[ref.buf].gen]
        /\ UNCHANGED th
        /\ UNCHANGED codecVars

\* there is no Buffer and no Arena
StoreIdle ==
    /\ bf = <<>>
    /\ bcall = <<>>
    /\ marks = {}
    /\ bth = <<>>
    /\ ar = <<>>
    /\ frags = <<>>

\* no Encode or Decode call is made
CodecIdle ==
    /\ StoreIdle
    /\ call = <<>>
    /\ cb = <<>>
    /\ epc = "idle"
    /\ ecur = 0
    /\ enc = <<>>
    /\ eres = <<>>
    /\ dpc = "idle"
    /\ dcur = 0
    /\ dec = <<>>
    /\ got = <<>>
    /\ dres = "none"
    /\ loc = <<>>

SeqInit == PoolInit /\ th = <<>> /\ CodecIdle

SeqNext ==
    \/ BorrowAlloc(FewLens)
    \/ Borrow(FewLens, MaxRefs)
    \/ ReleaseZero
    \/ \E i \in 1 .. Len(refs) : Release(i)

\* the pool under one sequential caller
Spec == SeqInit /\ [][SeqNext]_vars

CapNext ==
    \/ BorrowAlloc(Lens)
    \/ Borrow(Lens, CapRefs)
    \/ \E i \in 1 .. Len(refs) : Release(i)

\* one caller borrowing every length of Lens
SpecCap == SeqInit /\ [][CapNext]_vars

(***************************************************************************)
(* Concurrent callers: every atomic operation and every sync.Pool call of  *)
(* Borrow and Release is one step of a goroutine.                          *)
(***************************************************************************)

Idle == [pc |-> "idle", gen |-> 0, num |-> 0, buf |-> 0]

Threads == 1 .. NumThreads

\* the Borrow calls that have taken a generation and not returned
Borrowing == {t \in Threads : th[t].pc \in {"retry", "get", "set"}}

\* Borrow, line 122: gen = atomic.AddUint64(&p.gen, 1)
TAdd(t) ==
    /\ th[t].pc = "idle"
    /\ Len(refs) + Cardinality(Borrowing) < ConcRefs
    /\ \E len \in FewLens :
        /\ ~Allocates(len)
        /\ pool' = AddGen(pool)
        /\ th' = [th EXCEPT ![t] = [pc |-> IF pool'.gen = 0 THEN "retry" ELSE "get",
                                    gen |-> pool'.gen, num |-> PoolIndex(len),
                                    buf |-> 0]]
    /\ UNCHANGED <<heap, refs, last>>
    /\ UNCHANGED codecVars

TRetrySkips(t) ==
    /\ th[t].pc = "retry"
    /\ th' = [th EXCEPT ![t].pc = "get"]
    /\ UNCHANGED <<pool, heap, refs, last>>
    /\ UNCHANGED codecVars

\* Borrow, line 124: gen was zero, gen = atomic.AddUint64(&p.gen, 1)
TRetry(t) ==
    /\ th[t].pc = "retry"
    /\ pool' = AddGen(pool)
    /\ th' = [th EXCEPT ![t].pc = "get", ![t].gen = pool'.gen]
    /\ UNCHANGED <<heap, refs, last>>
    /\ UNCHANGED codecVars

\* Borrow, line 128: buf := p.pools[pool].Get()
TGet(t) ==
    /\ th[t].pc = "get"
    /\ \E c \in GetChoices(pool, heap, th[t].num) :
        /\ pool' = PoolTake(pool, th[t].num, c)
        /\ heap' = HeapGet(heap, th[t].num, c)
        /\ th' = [th EXCEPT ![t].pc = "set",
                            ![t].buf = GotBuf(pool, heap, th[t].num, c)]
    /\ UNCHANGED <<refs, last>>
    /\ UNCHANGED codecVars

\* Borrow, lines 131-156: buf.gen = gen, and the Ref is returned
TSet(t) ==
    /\ th[t].pc = "set"
    /\ heap' = SetGen(heap, th[t].buf, th[t].gen)
    /\ refs' = Append(refs, [gen |-> th[t].gen, buf |-> th[t].buf,
                             held |-> TRUE, calls |-> 0])
    /\ th' = [th EXCEPT ![t] = Idle]
    /\ UNCHANGED <<pool, last>>
    /\ UNCHANGED codecVars

\* Release, lines 81-83: the compare-and-swap, and the panic on a mismatch
TCas(t, i) ==
    LET r == refs[i]
    IN  /\ th[t].pc = "idle"
        /\ IF GenMatches(heap[r.buf].gen, r.gen)
           THEN /\ heap' = ClearGen(heap, r.buf)
                /\ refs' = [refs EXCEPT ![i].held = FALSE]
                /\ th' = [th EXCEPT ![t].pc = "put", ![t].buf = r.buf]
           ELSE /\ th' = [th EXCEPT ![t].pc = "panic", ![t].buf = r.buf]
                /\ UNCHANGED <<heap, refs>>
        /\ UNCHANGED <<pool, last>>
        /\ UNCHANGED codecVars

\* the caller of a Release that panicked recovers
TRecover(t) ==
    /\ th[t].pc = "panic"
    /\ th' = [th EXCEPT ![t] = Idle]
    /\ UNCHANGED <<pool, heap, refs, last>>
    /\ UNCHANGED codecVars

\* Release, line 92: r.pool.pools[r.buf.pool].Put(r.buf)
TPut(t) ==
    /\ th[t].pc = "put"
    /\ pool' = PoolPut(pool, heap, th[t].buf)
    /\ th' = [th EXCEPT ![t] = Idle]
    /\ UNCHANGED <<heap, refs, last>>
    /\ UNCHANGED codecVars

ConcInit == PoolInit /\ th = [t \in Threads |-> Idle] /\ CodecIdle

ConcNext ==
    \E t \in Threads :
        \/ TAdd(t)
        \/ TRetry(t)
        \/ TGet(t)
        \/ TSet(t)
        \/ \E i \in 1 .. Len(refs) : TCas(t, i)
        \/ TRecover(t)
        \/ TPut(t)

\* the pool under NumThreads goroutines
SpecConc == ConcInit /\ [][ConcNext]_vars

(***************************************************************************)
(* Properties of the pool.                                                 *)
(***************************************************************************)

\* the Refs that reference descriptor b and have not been released: a Ref is
\* released once the compare-and-swap of a Release call on it has succeeded
Holders(b) == {i \in 1 .. Len(refs) : refs[i].held /\ refs[i].buf = b}

\* the descriptors that sit in a free-list
Free == {pool.pools[k][j] : <<k, j>> \in
            UNION {{k} \X (1 .. Len(pool.pools[k])) : k \in 0 .. (NumPools - 1)}}

\* C1: the first Release of a Ref of a pooled length returns without panic, and
\* every later Release of the same Ref panics with "fpack: generation
\* mismatch", whether the descriptor is free or has been borrowed again.
FirstReleaseOnlySucceeds ==
    (last.op = "Release" /\ last.ref # zeroRef) =>
        /\ last.prior = 0 => last.panic = ""
        /\ last.prior > 0 => last.panic = "fpack: generation mismatch"

\* a second Release panicked while the descriptor was lent to a later borrower
WitnessStaleReleasePanics ==
    /\ last.op = "Release"
    /\ last.prior > 0
    /\ last.panic = "fpack: generation mismatch"
    /\ last.bufGen # 0
    /\ \E i \in Holders(last.ref.buf) : refs[i].gen # last.ref.gen

\* C2: after every completed Borrow or Release a descriptor's generation is
\* nonzero exactly when one unreleased Ref references it, that Ref carrying the
\* same generation, and zero exactly when no unreleased Ref references it.
GenerationIffHeld ==
    \A b \in 1 .. Len(heap) :
        /\ heap[b].gen # 0 <=> Cardinality(Holders(b)) = 1
        /\ heap[b].gen = 0 <=> Holders(b) = {}
        /\ \A i \in Holders(b) : refs[i].gen = heap[b].gen

\* a recycled descriptor is lent again while another descriptor is free
WitnessRecycledAndFree ==
    /\ \E b \in 1 .. Len(heap) :
        /\ heap[b].gen # 0
        /\ \E i \in 1 .. Len(refs) : refs[i].buf = b /\ ~refs[i].held
    /\ \E b \in 1 .. Len(heap) : heap[b].gen = 0 /\ b \in Free

\* C3: under any interleaving no descriptor is lent to two borrowers at once:
\* two unreleased Refs never reference the same descriptor, a descriptor in a
\* free-list is referenced by no unreleased Ref, and a descriptor a Borrow has
\* taken is neither referenced by an unreleased Ref nor taken by another Borrow.
NoDoubleLending ==
    /\ \A b \in 1 .. Len(heap) : Cardinality(Holders(b)) <= 1
    /\ \A b \in Free : Holders(b) = {}
    /\ \A t \in Threads : th[t].pc = "set" =>
        /\ Holders(th[t].buf) = {}
        /\ th[t].buf \notin Free
        /\ \A u \in Threads \ {t} : ~(th[u].pc = "set" /\ th[u].buf = th[t].buf)

\* a Release of a stale Ref panics while another goroutine has taken the Ref's
\* descriptor from the free-list and not yet set its generation
WitnessConcurrentReuse ==
    \E t, u \in Threads :
        /\ th[t].pc = "panic"
        /\ th[u].pc = "set"
        /\ th[u].buf = th[t].buf

SmallestClass(len) ==
    CHOOSE s \in {2 ^ (k + ClassShift) : k \in 0 .. (NumPools - 1)} :
        /\ s >= len
        /\ \A k \in 0 .. (NumPools - 1) :
            2 ^ (k + ClassShift) >= len => s <= 2 ^ (k + ClassShift)

\* C4: Borrow(len) for every len in [9, 32 MiB] returns a slice of length len
\* whose capacity is the smallest size class >= len, with a non-zero Ref; for
\* other lengths it returns a slice of capacity len and the zero Ref.
BorrowCapacityIsSmallestClass ==
    last.op = "Borrow" =>
        /\ last.slen = last.len
        /\ IF last.len >= MinPooled /\ last.len <= 2 ^ (NumPools - 1 + ClassShift)
           THEN last.scap = SmallestClass(last.len) /\ last.ref # zeroRef
           ELSE last.scap = last.len /\ last.ref = zeroRef

(***************************************************************************)
(* Bytes and 64-bit words.  An int64 or uint64 is its eight bytes, least   *)
(* significant first, so that every value of the type is represented.      *)
(***************************************************************************)

Min(a, b) == IF a < b THEN a ELSE b

Reverse(bs) == [i \in 1 .. Len(bs) |-> bs[Len(bs) + 1 - i]]

\* the word of an integer small enough to be written as a numeral
FromInt(n) ==
    [i \in 1 .. 8 |->
        IF i <= 4 THEN (n \div (256 ^ (i - 1))) % 256
        ELSE IF n < 0 THEN 255 ELSE 0]

\* a < b for uint64
ULt(a, b) == \E i \in 1 .. 8 : a[i] < b[i] /\ \A j \in (i + 1) .. 8 : a[j] = b[j]

FlipSign(a) == [a EXCEPT ![8] = (@ + 128) % 256]

\* a < b for int64
SLt(a, b) == ULt(FlipSign(a), FlipSign(b))

\* x >> k and x << 1 for uint64, k in 1 .. 7
Shr(x, k) ==
    [i \in 1 .. 8 |->
        (x[i] \div (2 ^ k)) + ((IF i < 8 THEN x[i + 1] ELSE 0) % (2 ^ k)) * (2 ^ (8 - k))]

Shl1(x) ==
    [i \in 1 .. 8 |-> ((x[i] * 2) % 256) + (IF i > 1 THEN x[i - 1] \div 128 ELSE 0)]

\* ^x
Not(x) == [i \in 1 .. 8 |-> 255 - x[i]]

\* int64(int8(x)), int64(int16(x)), int64(int32(x)): the low size bytes, sign
\* extended
SignExtend(x, size) ==
    [i \in 1 .. 8 |-> IF i <= size THEN x[i] ELSE IF x[size] >= 128 THEN 255 ELSE 0]

\* uint64(uint8(x)), uint64(uint16(x)), uint64(uint32(x)): the low size bytes
ZeroExtend(x, size) == [i \in 1 .. 8 |-> IF i <= size THEN x[i] ELSE 0]

\* math.MinInt8 .. math.MaxUint32
MinInt8 == FromInt(-128)
MaxInt8 == FromInt(127)
MinInt16 == FromInt(-32768)
MaxInt16 == FromInt(32767)
MinInt32 == FromInt(-2147483647 - 1)
MaxInt32 == FromInt(2147483647)
MinInt64 == <<0, 0, 0, 0, 0, 0, 0, 128>>
MaxInt64 == <<255, 255, 255, 255, 255, 255, 255, 127>>
MaxUint8 == FromInt(255)
MaxUint16 == FromInt(65535)
MaxUint32 == <<255, 255, 255, 255, 0, 0, 0, 0>>
MaxUint64 == <<255, 255, 255, 255, 255, 255, 255, 255>>

\* the error values
NoErr == "nil"
ErrBufferTooShort == "buffer too short"
ErrRemainingBytes == "remaining bytes"
ErrInvalidSize == "invalid size"
ErrNumberOverflow == "number overflow"
ErrEmptyDelimiter == "empty delimiter"
EOF == "EOF"

(***************************************************************************)
(* encode.go: the Encoder.  e.buf is nil (e.nil) or the slice of e.mem     *)
(* that starts at e.off; e.panic is set when a primitive panics.           *)
(***************************************************************************)

\* NewEncoder
NewEncoder ==
    [bo |-> "BigEndian", len |-> 0, nil |-> TRUE, off |-> 0, err |-> NoErr,
     mem |-> <<>>, panic |-> FALSE]

ResetNilKeepsOrder(e) ==
    [e EXCEPT !.len = 0, !.nil = TRUE, !.off = 0, !.err = NoErr, !.mem = <<>>]

\* Encoder.Reset(nil)
ResetNil(e) ==
    [e EXCEPT !.bo = "BigEndian", !.len = 0, !.nil = TRUE, !.off = 0,
              !.err = NoErr, !.mem = <<>>]

\* Encoder.Reset(buf), buf not nil
Reset(e, buf) ==
    [e EXCEPT !.bo = "BigEndian", !.len = 0, !.nil = FALSE, !.off = 0,
              !.err = NoErr, !.mem = buf]

EncUseLittleEndianNot(e) == e

\* Encoder.UseLittleEndian
EncUseLittleEndian(e) == [e EXCEPT !.bo = "LittleEndian"]

\* len(e.buf)
BufLen(e) == Len(e.mem) - e.off

\* e.buf[0], e.buf[1], ... = bs: a panic (index out of range) when e.buf is
\* shorter than bs
StoreAt(e, bs) ==
    IF Len(bs) > BufLen(e) THEN [e EXCEPT !.panic = TRUE]
    ELSE [e EXCEPT !.mem = [i \in 1 .. Len(e.mem) |->
                               IF i > e.off /\ i <= e.off + Len(bs)
                               THEN bs[i - e.off] ELSE e.mem[i]]]

SliceFromStays(e, n) == e

\* e.buf = e.buf[n:]: a panic (slice bounds out of range) when n > len(e.buf)
SliceFrom(e, n) ==
    IF e.panic THEN e
    ELSE IF n < 0 \/ n > BufLen(e) THEN [e EXCEPT !.panic = TRUE]
    ELSE [e EXCEPT !.off = @ + n]

OrderedLittle(bo, x, size) == SubSeq(x, 1, size)

\* bo.PutUint16, bo.PutUint32, bo.PutUint64: the low size bytes of x in byte
\* order bo
Ordered(bo, x, size) ==
    IF bo = "BigEndian" THEN Reverse(SubSeq(x, 1, size)) ELSE SubSeq(x, 1, size)

EncSkipUnchecked(e, num) ==
    IF e.nil THEN [e EXCEPT !.len = @ + num]
    ELSE SliceFrom(StoreAt(e, [i \in 1 .. num |-> 0]), num)

\* Encoder.Skip(num)
EncSkip(e, num) ==
    IF e.err # NoErr THEN e
    ELSE IF e.nil THEN [e EXCEPT !.len = @ + num]
    ELSE SliceFrom(StoreAt(e, [i \in 1 .. num |-> 0]), num)

\* Int and Uint: "write number"
PutNumber(e, un, size) ==
    IF size \in {1, 2, 4, 8} THEN StoreAt(e, Ordered(e.bo, un, size)) ELSE e

\* Encoder.Int(n, size)
EncInt(e, n, size) ==
    IF e.err # NoErr THEN e
    ELSE LET overflow ==
                 CASE size = 1 -> SLt(n, MinInt8) \/ SLt(MaxInt8, n)
                   [] size = 2 -> SLt(n, MinInt16) \/ SLt(MaxInt16, n)
                   [] size = 4 -> SLt(n, MinInt32) \/ SLt(MaxInt32, n)
                   [] OTHER -> FALSE
             e1 == IF overflow THEN [e EXCEPT !.err = ErrNumberOverflow] ELSE e
         IN  IF e1.nil THEN [e1 EXCEPT !.len = @ + size]
             ELSE SliceFrom(PutNumber(e1, n, size), size)

UintOverflowsNever(num, size) == FALSE

\* Uint: "check overflow"
UintOverflows(num, size) ==
    CASE size = 1 -> ULt(MaxUint8, num)
      [] size = 2 -> ULt(MaxUint16, num)
      [] size = 4 -> ULt(MaxUint32, num)
      [] OTHER -> FALSE

\* Encoder.Uint(num, size)
EncUint(e, num, size) ==
    IF e.err # NoErr THEN e
    ELSE LET e1 == IF UintOverflows(num, size)
                   THEN [e EXCEPT !.err = ErrNumberOverflow] ELSE e
         IN  IF e1.nil THEN [e1 EXCEPT !.len = @ + size]
             ELSE SliceFrom(PutNumber(e1, num, size), size)

\* Encoder.Bool(yes)
EncBool(e, yes) == IF yes THEN EncUint(e, FromInt(1), 1) ELSE EncUint(e, FromInt(0), 1)

RECURSIVE PutUvarint(_)
\* binary.PutUvarint: the bytes it stores for x
PutUvarint(x) ==
    IF ~ULt(x, FromInt(128))
    THEN <<(x[1] % 128) + 128>> \o PutUvarint(Shr(x, 7))
    ELSE <<x[1]>>

\* binary.PutVarint: the bytes it stores for the int64 x
PutVarint(x) ==
    LET ux == Shl1(x) IN PutUvarint(IF SLt(x, FromInt(0)) THEN Not(ux) ELSE ux)

\* Encoder.VarInt(num)
EncVarInt(e, num) ==
    IF e.err # NoErr THEN e
    ELSE IF e.nil THEN [e EXCEPT !.len = @ + Len(PutVarint(num))]
    ELSE SliceFrom(StoreAt(e, PutVarint(num)), Len(PutVarint(num)))

\* Encoder.VarUint(num)
EncVarUint(e, num) ==
    IF e.err # NoErr THEN e
    ELSE IF e.nil THEN [e EXCEPT !.len = @ + Len(PutUvarint(num))]
    ELSE SliceFrom(StoreAt(e, PutUvarint(num)), Len(PutUvarint(num)))

\* Encoder.String(str), Encoder.Bytes(buf) and Encoder.Tail(buf): copy stores
\* what fits
EncString(e, str) ==
    IF e.err # NoErr THEN e
    ELSE IF e.nil THEN [e EXCEPT !.len = @ + Len(str)]
    ELSE LET n == Min(BufLen(e), Len(str))
         IN  SliceFrom(StoreAt(e, SubSeq(str, 1, n)), n)

EncBytes(e, buf) == EncString(e, buf)

EncTail(e, buf) == EncString(e, buf)

\* Encoder.FixString(str, lenSize) and Encoder.FixBytes(buf, lenSize)
EncFixString(e, str, lenSize) ==
    LET e1 == EncUint(e, FromInt(Len(str)), lenSize)
    IN  IF e1.panic THEN e1 ELSE EncString(e1, str)

\* Encoder.VarString(str) and Encoder.VarBytes(buf)
EncVarString(e, str) ==
    LET e1 == EncVarUint(e, FromInt(Len(str)))
    IN  IF e1.panic THEN e1 ELSE EncString(e1, str)

\* Encoder.DelString(str, delim) and Encoder.DelBytes(buf, delim)
EncDelString(e, str, delim) == EncString(EncString(e, str), delim)

(***************************************************************************)
(* decode.go: the Decoder.  d.buf is the sequence of bytes not read yet;   *)
(* d.panic is set when a primitive panics.  A primitive yields the Decoder *)
(* after the call (d) and the value returned (v: a word w or bytes s).     *)
(***************************************************************************)

Zero == FromInt(0)

\* the zero value of a word and of a string or byte slice
NoValue == [w |-> Zero, s |-> <<>>]

WordValue(x) == [w |-> x, s |-> <<>>]

BytesValue(bs) == [w |-> Zero, s |-> bs]

\* NewDecoder(buf) and Decoder.Reset(buf)
NewDecoder(buf) == [bo |-> "BigEndian", buf |-> buf, err |-> NoErr, panic |-> FALSE]

\* Decoder.UseLittleEndian
DecUseLittleEndian(d) == [d EXCEPT !.bo = "LittleEndian"]

\* d.buf[n:]
Rest(buf, n) == SubSeq(buf, n + 1, Len(buf))

Fail(d, err) == [d |-> [d EXCEPT !.err = err], v |-> NoValue]

DecSkipUnchecked(d, num) ==
    IF Len(d.buf) < num THEN Fail(d, ErrBufferTooShort)
    ELSE IF num < 0 THEN [d |-> [d EXCEPT !.panic = TRUE], v |-> NoValue]
    ELSE [d |-> [d EXCEPT !.buf = Rest(@, num)], v |-> NoValue]

\* Decoder.Skip(num)
DecSkip(d, num) ==
    IF d.err # NoErr THEN [d |-> d, v |-> NoValue]
    ELSE IF Len(d.buf) < num THEN Fail(d, ErrBufferTooShort)
    ELSE IF num < 0 THEN [d |-> [d EXCEPT !.panic = TRUE], v |-> NoValue]
    ELSE [d |-> [d EXCEPT !.buf = Rest(@, num)], v |-> NoValue]

\* bo.Uint16, bo.Uint32, bo.Uint64: the word of the first size bytes of buf
Unordered(bo, buf, size) ==
    LET bs == IF bo = "BigEndian" THEN Reverse(SubSeq(buf, 1, size))
              ELSE SubSeq(buf, 1, size)
    IN  [i \in 1 .. 8 |-> IF i <= size THEN bs[i] ELSE 0]

\* Decoder.Int(size)
DecInt(d, size) ==
    IF d.err # NoErr THEN [d |-> d, v |-> NoValue]
    ELSE IF Len(d.buf) < size THEN Fail(d, ErrBufferTooShort)
    ELSE IF size \in {1, 2, 4, 8}
    THEN [d |-> [d EXCEPT !.buf = Rest(@, size)],
          v |-> WordValue(SignExtend(Unordered(d.bo, d.buf, size), size))]
    ELSE Fail(d, ErrInvalidSize)

\* Decoder.Uint(size)
DecUint(d, size) ==
    IF d.err # NoErr THEN [d |-> d, v |-> NoValue]
    ELSE IF Len(d.buf) < size THEN Fail(d, ErrBufferTooShort)
    ELSE IF size \in {1, 2, 4, 8}
    THEN [d |-> [d EXCEPT !.buf = Rest(@, size)],
          v |-> WordValue(Unordered(d.bo, d.buf, size))]
    ELSE Fail(d, ErrInvalidSize)

\* Decoder.Bool: d.Uint8() == 1
DecBool(d) ==
    LET r == DecUint(d, 1)
    IN  [d |-> r.d, v |-> WordValue(IF r.v.w = FromInt(1) THEN FromInt(1) ELSE Zero)]

RECURSIVE UvarintLen(_, _)
\* binary.Uvarint: the count it returns, reading from byte i (counted from 0):
\* 0 when buf ends first, negative on overflow
UvarintLen(buf, i) ==
    IF i >= Len(buf) THEN 0
    ELSE IF i = 10 THEN -(i + 1)
    ELSE IF buf[i + 1] < 128
    THEN IF i = 9 /\ buf[i + 1] > 1 THEN -(i + 1) ELSE i + 1
    ELSE UvarintLen(buf, i + 1)

\* binary.Uvarint: the value of the n bytes read, seven bits a byte
UvarintValue(buf, n) ==
    LET bit(k) == IF k \div 7 < n
                  THEN ((buf[(k \div 7) + 1] % 128) \div (2 ^ (k % 7))) % 2
                  ELSE 0
    IN  [j \in 1 .. 8 |->
            bit(8 * j - 8) + 2 * bit(8 * j - 7) + 4 * bit(8 * j - 6)
            + 8 * bit(8 * j - 5) + 16 * bit(8 * j - 4) + 32 * bit(8 * j - 3)
            + 64 * bit(8 * j - 2) + 128 * bit(8 * j - 1)]

\* Decoder.VarUint
DecVarUint(d) ==
    IF d.err # NoErr THEN [d |-> d, v |-> NoValue]
    ELSE LET n == UvarintLen(d.buf, 0)
         IN  IF n <= 0 THEN Fail(d, ErrBufferTooShort)
             ELSE [d |-> [d EXCEPT !.buf = Rest(@, n)],
                   v |-> WordValue(UvarintValue(d.buf, n))]

\* binary.Varint: x := int64(ux >> 1); if ux&1 != 0 { x = ^x }
Unzigzag(ux) == IF ux[1] % 2 = 1 THEN Not(Shr(ux, 1)) ELSE Shr(ux, 1)

\* Decoder.VarInt
DecVarInt(d) ==
    IF d.err # NoErr THEN [d |-> d, v |-> NoValue]
    ELSE LET n == UvarintLen(d.buf, 0)
         IN  IF n <= 0 THEN Fail(d, ErrBufferTooShort)
             ELSE [d |-> [d EXCEPT !.buf = Rest(@, n)],
                   v |-> WordValue(Unzigzag(UvarintValue(d.buf, n)))]

\* int(x) for a uint64 x: exact below 2^31; a larger value below 2^63 stands as
\* 2^31-1, more than any length of the model; a value from 2^63 is negative and
\* stands as -1
IntOf(x) ==
    IF x[8] >= 128 THEN -1
    ELSE IF x[4] >= 128 \/ \E i \in 5 .. 8 : x[i] # 0 THEN 2147483647
    ELSE x[1] + 256 * x[2] + 65536 * x[3] + 16777216 * x[4]

\* Decoder.String(length, clone) and Decoder.Bytes(length, clone): d.buf[:length]
\* panics for a negative length; clone decides only whether the result aliases
\* the input
DecString(d, length) ==
    IF d.err # NoErr THEN [d |-> d, v |-> NoValue]
    ELSE IF Len(d.buf) < length THEN Fail(d, ErrBufferTooShort)
    ELSE IF length < 0 THEN [d |-> [d EXCEPT !.panic = TRUE], v |-> NoValue]
    ELSE [d |-> [d EXCEPT !.buf = Rest(@, length)],
          v |-> BytesValue(SubSeq(d.buf, 1, length))]

DecBytes(d, length) == DecString(d, length)

\* Decoder.FixString(lenSize, clone) and Decoder.FixBytes(lenSize, clone)
DecFixString(d, lenSize) ==
    LET r == DecUint(d, lenSize) IN DecString(r.d, IntOf(r.v.w))

\* Decoder.VarString(clone) and Decoder.VarBytes(clone)
DecVarString(d) ==
    LET r == DecVarUint(d) IN DecString(r.d, IntOf(r.v.w))

\* bytes.Index(buf, sep), counted from 0; -1 when sep does not occur
RECURSIVE IndexFrom(_, _, _)
\* the scan of bytes.Index from offset i: the first offset at which sep lies
\* in buf, -1 when there is none
IndexFrom(buf, sep, i) ==
    IF i + Len(sep) > Len(buf) THEN -1
    ELSE IF SubSeq(buf, i + 1, i + Len(sep)) = sep THEN i
    ELSE IndexFrom(buf, sep, i + 1)

IndexLast(buf, sep) ==
    LET at == {i \in 0 .. (Len(buf) - Len(sep)) :
                  SubSeq(buf, i + 1, i + Len(sep)) = sep}
    IN  IF at = {} THEN -1 ELSE CHOOSE i \in at : \A j \in at : j <= i

\* bytes.Index(buf, sep)
Index(buf, sep) == IndexFrom(buf, sep, 0)

DecDelStringUnchecked(d, delim) ==
    IF d.err # NoErr THEN [d |-> d, v |-> NoValue]
    ELSE LET idx == IndexFrom(d.buf, delim, 0)
         IN  IF idx < 0 THEN Fail(d, ErrBufferTooShort)
             ELSE [d |-> [d EXCEPT !.buf = Rest(@, idx + Len(delim))],
                   v |-> BytesValue(SubSeq(d.buf, 1, idx))]

\* Decoder.DelString(delim, clone) and Decoder.DelBytes(delim, clone)
DecDelString(d, delim) ==
    IF d.err # NoErr THEN [d |-> d, v |-> NoValue]
    ELSE IF Len(delim) = 0 THEN Fail(d, ErrEmptyDelimiter)
    ELSE LET idx == Index(d.buf, delim)
         IN  IF idx < 0 THEN Fail(d, ErrBufferTooShort)
             ELSE [d |-> [d EXCEPT !.buf = Rest(@, idx + Len(delim))],
                   v |-> BytesValue(SubSeq(d.buf, 1, idx))]

\* Decoder.Tail(clone)
DecTail(d) == DecBytes(d, Len(d.buf))

(***************************************************************************)
(* Callbacks.  A callback is a sequence of primitive calls; a call is a    *)
(* record of the method (k), its number (w), its size or count (n), its    *)
(* string or bytes (s) and its delimiter (d).                              *)
(***************************************************************************)

Op(k, w, n, s, d) == [k |-> k, w |-> w, n |-> n, s |-> s, d |-> d]

NumOp(k, w) == Op(k, w, 0, <<>>, <<>>)

SizedOp(k, w, n) == Op(k, w, n, <<>>, <<>>)

StrOp(k, s) == Op(k, Zero, 0, s, <<>>)

\* the call a callback does not make
None == StrOp("None", <<>>)

\* math.Float32bits and math.Float64bits of MaxFloat32, a NaN, MaxFloat64, -Inf
MaxFloat32Bits == <<255, 255, 127, 127, 0, 0, 0, 0>>
NaN32Bits == <<1, 0, 192, 127, 0, 0, 0, 0>>
MaxFloat64Bits == <<255, 255, 255, 255, 255, 255, 239, 127>>
NegInfBits == <<0, 0, 0, 0, 0, 0, 240, 255>>

\* "foo", "bar", "baz", "a", "aa", "f\x00o" and "\x00"
Foo == <<102, 111, 111>>
Bar == <<98, 97, 114>>
Baz == <<98, 97, 122>>
StrA == <<97>>
StrAA == <<97, 97>>
FooNul == <<102, 0, 111>>
Nul == <<0>>

\* the method op of the Encoder e
EncOp(e, op) ==
    CASE op.k = "None" -> e
      [] op.k = "UseLittleEndian" -> EncUseLittleEndian(e)
      [] op.k = "Skip" -> EncSkip(e, op.n)
      [] op.k = "Bool" -> EncBool(e, op.w # Zero)
      [] op.k = "Int8" -> EncInt(e, op.w, 1)
      [] op.k = "Int16" -> EncInt(e, op.w, 2)
      [] op.k = "Int32" -> EncInt(e, op.w, 4)
      [] op.k = "Int64" -> EncInt(e, op.w, 8)
      [] op.k = "Int" -> EncInt(e, op.w, op.n)
      [] op.k = "Uint8" -> EncUint(e, op.w, 1)
      [] op.k = "Uint16" -> EncUint(e, op.w, 2)
      [] op.k = "Uint32" -> EncUint(e, op.w, 4)
      [] op.k = "Uint64" -> EncUint(e, op.w, 8)
      [] op.k = "Uint" -> EncUint(e, op.w, op.n)
      [] op.k = "Float32" -> EncUint(e, op.w, 4)
      [] op.k = "Float64" -> EncUint(e, op.w, 8)
      [] op.k = "VarInt" -> EncVarInt(e, op.w)
      [] op.k = "VarUint" -> EncVarUint(e, op.w)
      [] op.k = "String" -> EncString(e, op.s)
      [] op.k = "Bytes" -> EncBytes(e, op.s)
      [] op.k = "FixString" -> EncFixString(e, op.s, op.n)
      [] op.k = "FixBytes" -> EncFixString(e, op.s, op.n)
      [] op.k = "VarString" -> EncVarString(e, op.s)
      [] op.k = "VarBytes" -> EncVarString(e, op.s)
      [] op.k = "DelString" -> EncDelString(e, op.s, op.d)
      [] op.k = "DelBytes" -> EncDelString(e, op.s, op.d)
      [] op.k = "Tail" -> EncTail(e, op.s)

\* the method of the Decoder d that reads what op writes: a raw String or Bytes
\* is read with the length written
DecOp(d, op) ==
    CASE op.k = "None" -> [d |-> d, v |-> NoValue]
      [] op.k = "UseLittleEndian" -> [d |-> DecUseLittleEndian(d), v |-> NoValue]
      [] op.k = "Skip" -> DecSkip(d, op.n)
      [] op.k = "Bool" -> DecBool(d)
      [] op.k = "Int8" -> DecInt(d, 1)
      [] op.k = "Int16" -> DecInt(d, 2)
      [] op.k = "Int32" -> DecInt(d, 4)
      [] op.k = "Int64" -> DecInt(d, 8)
      [] op.k = "Int" -> DecInt(d, op.n)
      [] op.k = "Uint8" -> DecUint(d, 1)
      [] op.k = "Uint16" -> DecUint(d, 2)
      [] op.k = "Uint32" -> DecUint(d, 4)
      [] op.k = "Uint64" -> DecUint(d, 8)
      [] op.k = "Uint" -> DecUint(d, op.n)
      [] op.k = "Float32" -> DecUint(d, 4)
      [] op.k = "Float64" -> DecUint(d, 8)
      [] op.k = "VarInt" -> DecVarInt(d)
      [] op.k = "VarUint" -> DecVarUint(d)
      [] op.k = "String" -> DecString(d, Len(op.s))
      [] op.k = "Bytes" -> DecBytes(d, Len(op.s))
      [] op.k = "FixString" -> DecFixString(d, op.n)
      [] op.k = "FixBytes" -> DecFixString(d, op.n)
      [] op.k = "VarString" -> DecVarString(d)
      [] op.k = "VarBytes" -> DecVarString(d)
      [] op.k = "DelString" -> DecDelString(d, op.d)
      [] op.k = "DelBytes" -> DecDelString(d, op.d)
      [] op.k = "Tail" -> DecTail(d)

\* the value the call op was given to write
Written(op) ==
    IF op.k \in {"None", "UseLittleEndian", "Skip"} THEN NoValue
    ELSE IF op.k \in {"String", "Bytes", "FixString", "FixBytes", "VarString",
                      "VarBytes", "DelString", "DelBytes", "Tail"}
    THEN BytesValue(op.s)
    ELSE IF op.k = "Bool" THEN WordValue(IF op.w # Zero THEN FromInt(1) ELSE Zero)
    ELSE WordValue(op.w)

\* the calls a callback chooses among: every primitive, the extremes of every
\* width, values that overflow a width, sizes that are no width, payloads that
\* hold or overlap their delimiter, an empty delimiter
MainOps ==
    {SizedOp("Skip", Zero, 0), SizedOp("Skip", Zero, 3),
     NumOp("Bool", FromInt(1)), NumOp("Bool", Zero),
     NumOp("Int8", MinInt8), NumOp("Int8", MaxInt8),
     NumOp("Int16", MinInt16), NumOp("Int16", MaxInt16),
     NumOp("Int32", MinInt32), NumOp("Int32", MaxInt32),
     NumOp("Int64", MinInt64), NumOp("Int64", MaxInt64),
     SizedOp("Int", FromInt(-42), 4), SizedOp("Int", FromInt(-1), 8),
     SizedOp("Int", FromInt(128), 1), SizedOp("Int", FromInt(-129), 1),
     SizedOp("Int", FromInt(32768), 2), SizedOp("Int", MaxUint32, 4),
     SizedOp("Int", FromInt(5), 3), SizedOp("Int", FromInt(127), 1),
     SizedOp("Int", FromInt(-32769), 2), SizedOp("Int", <<0, 0, 0, 128, 0, 0, 0, 0>>, 4),
     SizedOp("Int", <<255, 255, 255, 127, 255, 255, 255, 255>>, 4),
     SizedOp("Uint", FromInt(65536), 2), SizedOp("Uint", <<0, 0, 0, 0, 1, 0, 0, 0>>, 4),
     SizedOp("Uint", MaxUint32, 4), SizedOp("Uint", MaxUint64, 8),
     NumOp("Uint8", MaxUint8), NumOp("Uint16", MaxUint16),
     NumOp("Uint32", MaxUint32), NumOp("Uint64", MaxUint64),
     SizedOp("Uint", FromInt(42), 2), SizedOp("Uint", FromInt(256), 1),
     SizedOp("Uint", MaxUint64, 4), SizedOp("Uint", FromInt(7), 3),
     NumOp("Float32", MaxFloat32Bits), NumOp("Float32", NaN32Bits),
     NumOp("Float64", MaxFloat64Bits), NumOp("Float64", NegInfBits),
     NumOp("VarInt", FromInt(7)), NumOp("VarInt", FromInt(-1)),
     NumOp("VarInt", FromInt(-64)), NumOp("VarInt", FromInt(64)),
     NumOp("VarInt", MinInt64), NumOp("VarInt", MaxInt64),
     NumOp("VarUint", Zero), NumOp("VarUint", FromInt(127)),
     NumOp("VarUint", FromInt(128)), NumOp("VarUint", FromInt(512)),
     NumOp("VarUint", MaxUint64),
     StrOp("String", <<>>), StrOp("String", Foo), StrOp("Bytes", Bar),
     Op("FixString", Zero, 1, Foo, <<>>), Op("FixString", Zero, 2, <<>>, <<>>),
     Op("FixString", Zero, 8, StrAA, <<>>), Op("FixBytes", Zero, 4, Bar, <<>>),
     Op("FixBytes", Zero, 3, Bar, <<>>),
     StrOp("VarString", Foo), StrOp("VarString", <<>>), StrOp("VarBytes", Bar),
     Op("DelString", Zero, 0, Foo, Nul), Op("DelBytes", Zero, 0, Bar, Nul),
     Op("DelString", Zero, 0, <<>>, StrAA), Op("DelString", Zero, 0, FooNul, Nul),
     Op("DelString", Zero, 0, StrA, StrAA), Op("DelBytes", Zero, 0, Bar, <<>>),
     StrOp("Tail", Baz), StrOp("Tail", <<>>),
     StrOp("UseLittleEndian", <<>>)}

\* a callback that makes the call op in both passes
Same(op) == [c |-> op, w |-> op]

\* what a callback does at one place of its code: the call c when
\* enc.Counting(), the call w otherwise
MainElems == {Same(op) : op \in MainOps}

\* the calls a callback makes besides: a change of byte order, a field that
\* makes the message long enough for a pooled destination, plain fields, and
\* calls that depend on enc.Counting()
SideElems ==
    {Same(StrOp("UseLittleEndian", <<>>)),
     Same(SizedOp("Skip", Zero, 8)),
     Same(NumOp("Uint16", FromInt(42))),
     [c |-> NumOp("Uint8", FromInt(42)), w |-> SizedOp("Int", FromInt(128), 1)],
     [c |-> None, w |-> NumOp("Uint8", FromInt(42))],
     [c |-> NumOp("Uint16", FromInt(42)), w |-> NumOp("Uint8", FromInt(42))]}

Elems == MainElems \cup SideElems

\* a callback makes at most one call of MainElems that is not of SideElems
Callbacks(prog, el) ==
    \/ el \in SideElems
    \/ \A i \in 1 .. Len(prog) : prog[i] \in SideElems

\* the callback makes the same calls in both passes
Deterministic(prog) == \A i \in 1 .. Len(prog) : prog[i].c = prog[i].w

(***************************************************************************)
(* encode.go: Encode(pool, fn), that is encode(pool, nil, false, fn), and  *)
(* decode.go: Decode(bytes, fn).  A step is a call the callback makes, or  *)
(* the return of the callback with what encode or Decode does until the   *)
(* callback runs again or the call returns.                                *)
(***************************************************************************)

\* a call: the function, whether pool is not nil, withBuf, and buf (nil or
\* its bytes)
Call(fn, p, withBuf, nil, buf) ==
    [fn |-> fn, pool |-> p, withBuf |-> withBuf, nil |-> nil, buf |-> buf]

\* the calls of Encode, with a Pool and with a nil Pool, and of Measure
Calls ==
    {Call("Encode", TRUE, FALSE, TRUE, <<>>),
     Call("Encode", FALSE, FALSE, TRUE, <<>>),
     Call("Measure", FALSE, FALSE, TRUE, <<>>)}

\* the calls of EncodeInto: with a nil slice, an empty one, and slices of 2
\* and 10 bytes that hold the caller's bytes
IntoCalls ==
    {Call("EncodeInto", FALSE, TRUE, TRUE, <<>>),
     Call("EncodeInto", FALSE, TRUE, FALSE, <<>>),
     Call("EncodeInto", FALSE, TRUE, FALSE, <<171, 205>>),
     Call("EncodeInto", FALSE, TRUE, FALSE, <<1, 2, 3, 4, 5, 6, 7, 8, 9, 10>>)}

\* what a callback returns: nil or io.EOF
Returns == {NoErr, EOF}

\* make([]byte, len)
Make(len) == [i \in 1 .. len |-> 0]

\* buf.slice[0:len] of a descriptor of the Pool, not zeroed
Stale(len) == [i \in 1 .. len |-> StaleByte]

\* return nil, 0, Ref{}, err
Failed(err) == [buf |-> <<>>, nil |-> TRUE, n |-> 0, ref |-> zeroRef, err |-> err]

FnErrorOnly(ret, e) == ret

\* err := fn(enc), and err = enc.Error() when that is nil
FnError(ret, e) == IF ret # NoErr THEN ret ELSE e.err

\* encode()'s locals length and ref, whether it has called make, how often it
\* has called fn, and what the first run of fn returned and left in enc.err
Locals(length, ref, made, fns, ret1, err1) ==
    [length |-> length, ref |-> ref, made |-> made, fns |-> fns, ret1 |-> ret1,
     err1 |-> err1]

TooShortOrEqual(c, length) == c.withBuf /\ Len(c.buf) <= length

\* encode: "check length"
TooShort(c, length) == c.withBuf /\ Len(c.buf) < length

\* return length, nil of Measure
Measured(length) ==
    [buf |-> <<>>, nil |-> TRUE, n |-> length, ref |-> zeroRef, err |-> NoErr]

\* one of the calls S begins: fn runs for the first time
Started(S) ==
    /\ pool = NewPool
    /\ heap = <<>>
    /\ refs = <<>>
    /\ last = NoCall
    /\ th = <<>>
    /\ call \in S
    /\ cb = <<>>
    /\ epc = "count"
    /\ ecur = 0
    /\ enc = NewEncoder
    /\ eres = Failed(NoErr)
    /\ loc = Locals(0, zeroRef, FALSE, 1, NoErr, NoErr)
    /\ dpc = "idle"
    /\ dcur = 0
    /\ dec = NewDecoder(<<>>)
    /\ got = <<>>
    /\ dres = "none"
    /\ StoreIdle

EncodeInit == Started(Calls)

\* the first run of fn: the callback makes the call el.c
Count(el) ==
    /\ epc = "count"
    /\ Len(cb) < MaxOps
    /\ Callbacks(cb, el)
    /\ cb' = Append(cb, el)
    /\ enc' = EncOp(enc, el.c)
    /\ UNCHANGED <<pool, heap, refs, last, th, storeVars, call, epc, ecur, eres, loc>>
    /\ UNCHANGED decVars

\* the first run of fn returns ret: Measure returns; encode returns the error,
\* or gets the buffer, resets the Encoder and runs fn again
Counted(ret) ==
    /\ epc = "count"
    /\ LET err == FnError(ret, enc)
           length == enc.len
       IN  IF err # NoErr
           THEN /\ eres' = Failed(err)
                /\ enc' = ResetNil(enc)
                /\ epc' = "done"
                /\ loc' = Locals(0, zeroRef, FALSE, 1, ret, enc.err)
                /\ UNCHANGED <<pool, heap, refs, last, ecur>>
           ELSE IF call.fn = "Measure"
           THEN /\ eres' = Measured(length)
                /\ enc' = ResetNil(enc)
                /\ epc' = "done"
                /\ loc' = Locals(length, zeroRef, FALSE, 1, ret, enc.err)
                /\ UNCHANGED <<pool, heap, refs, last, ecur>>
           ELSE IF TooShort(call, length)
           THEN /\ eres' = Failed(ErrBufferTooShort)
                /\ enc' = ResetNil(enc)
                /\ epc' = "done"
                /\ loc' = Locals(length, zeroRef, FALSE, 1, ret, enc.err)
                /\ UNCHANGED <<pool, heap, refs, last, ecur>>
           ELSE /\ epc' = "write"
                /\ ecur' = 1
                /\ IF call.withBuf \/ ~call.pool \/ Allocates(length)
                   THEN /\ enc' = IF call.withBuf
                                  THEN IF call.nil THEN ResetNil(enc)
                                       ELSE Reset(enc, call.buf)
                                  ELSE Reset(enc, Make(length))
                        /\ loc' = Locals(length, zeroRef, ~call.withBuf, 2, ret,
                                          enc.err)
                        /\ UNCHANGED <<pool, heap, refs, last>>
                   ELSE \E c \in GetChoices(NextGen(pool), heap, PoolIndex(length)) :
                            LET r == Borrowed(pool, heap, length, c)
                            IN  /\ pool' = r.pool
                                /\ heap' = r.heap
                                /\ refs' = Append(refs, Lent(r.ref))
                                /\ last' = [op |-> "Borrow", len |-> length,
                                            slen |-> length, scap |-> r.scap,
                                            ref |-> r.ref]
                                /\ enc' = Reset(enc, Stale(length))
                                /\ loc' = Locals(length, r.ref, FALSE, 2, ret,
                                                  enc.err)
                /\ UNCHANGED eres
    /\ UNCHANGED <<th, storeVars, call, cb>>
    /\ UNCHANGED decVars

\* the second run of fn: the callback makes its next call; a panic leaves
\* encode through the deferred enc.Reset(nil)
Write ==
    /\ epc = "write"
    /\ ecur <= Len(cb)
    /\ LET e == EncOp(enc, cb[ecur].w)
       IN  /\ enc' = IF e.panic THEN ResetNil(e) ELSE e
           /\ epc' = IF e.panic THEN "panic" ELSE "write"
    /\ ecur' = ecur + 1
    /\ UNCHANGED <<pool, heap, refs, last, th, storeVars, call, cb, eres, loc>>
    /\ UNCHANGED decVars

\* the second run of fn returns ret: encode releases the Ref and returns the
\* error, or returns the buffer
Wrote(ret) ==
    /\ epc = "write"
    /\ ecur > Len(cb)
    /\ LET err == FnError(ret, enc)
       IN  IF err = NoErr
           THEN /\ eres' = [buf |-> enc.mem, nil |-> FALSE, n |-> loc.length,
                            ref |-> loc.ref, err |-> NoErr]
                /\ epc' = "done"
                /\ UNCHANGED <<pool, heap, refs, last>>
           ELSE IF loc.ref = zeroRef
           THEN /\ eres' = Failed(err)
                /\ epc' = "done"
                /\ UNCHANGED <<pool, heap, refs, last>>
           ELSE LET r == Released(pool, heap, loc.ref)
                IN  /\ pool' = r.pool
                    /\ heap' = r.heap
                    /\ refs' = [i \in 1 .. Len(refs) |->
                                   IF refs[i].gen = loc.ref.gen /\ r.panic = ""
                                   THEN [refs[i] EXCEPT !.held = FALSE, !.calls = 1]
                                   ELSE refs[i]]
                    /\ last' = [op |-> "Release", ref |-> loc.ref,
                                panic |-> r.panic, prior |-> 0,
                                bufGen |-> heap[loc.ref.buf].gen]
                    /\ eres' = Failed(err)
                    /\ epc' = IF r.panic = "" THEN "done" ELSE "panic"
    /\ enc' = ResetNil(enc)
    /\ UNCHANGED <<th, storeVars, call, cb, ecur, loc>>
    /\ UNCHANGED decVars

DecodeReturnsCallbackLast(ret, d) ==
    IF d.err # NoErr THEN d.err
    ELSE IF Len(d.buf) # 0 THEN ErrRemainingBytes
    ELSE ret

DecodeReturnsNoRemaining(ret, d) ==
    IF ret # NoErr THEN ret ELSE d.err

\* what Decode returns when the callback has returned ret and left the
\* Decoder d
DecodeReturns(ret, d) ==
    IF ret # NoErr THEN ret
    ELSE IF d.err # NoErr THEN d.err
    ELSE IF Len(d.buf) # 0 THEN ErrRemainingBytes
    ELSE NoErr

\* Decode(bytes, fn) of the bytes Encode returned
Decode ==
    /\ epc = "done"
    /\ call.fn = "Encode"
    /\ eres.err = NoErr
    /\ dpc = "idle"
    /\ dec' = NewDecoder(eres.buf)
    /\ dpc' = "read"
    /\ dcur' = 1
    /\ UNCHANGED <<pool, heap, refs, last, th, storeVars, call, cb, epc, ecur, enc, eres,
                   loc, got, dres>>

\* fn reads what the callback of Encode wrote, call by call
Read ==
    /\ dpc = "read"
    /\ dcur <= Len(cb)
    /\ LET r == DecOp(dec, cb[dcur].w)
       IN  /\ dec' = r.d
           /\ got' = Append(got, r.v)
           /\ dpc' = IF r.d.panic THEN "panic" ELSE "read"
    /\ dcur' = dcur + 1
    /\ UNCHANGED <<pool, heap, refs, last, th, storeVars, call, cb, epc, ecur, enc, eres,
                   loc, dres>>

\* what Decode had before it when fn returned: fn's error, dec.Error() and
\* dec.Length()
Seen(ret, d) == [op |-> "Decode", ret |-> ret, err |-> d.err, rem |-> Len(d.buf)]

\* fn returns nil: Decode returns, and the deferred dec.Reset(nil) runs
Decoded ==
    /\ dpc = "read"
    /\ dcur > Len(cb)
    /\ dres' = DecodeReturns(NoErr, dec)
    /\ last' = Seen(NoErr, dec)
    /\ dec' = NewDecoder(<<>>)
    /\ dpc' = "done"
    /\ UNCHANGED <<pool, heap, refs, th, storeVars, call, cb, epc, ecur, enc, eres, loc,
                   dcur, got>>

IntoInit == Started(IntoCalls)

IntoNext ==
    \/ \E el \in Elems : Count(el)
    \/ \E ret \in Returns : Counted(ret)
    \/ Write
    \/ \E ret \in Returns : Wrote(ret)

\* one call of EncodeInto
SpecInto == IntoInit /\ [][IntoNext]_vars

EncodeNext ==
    \/ \E el \in Elems : Count(el)
    \/ \E ret \in Returns : Counted(ret)
    \/ Write
    \/ \E ret \in Returns : Wrote(ret)
    \/ Decode
    \/ Read
    \/ Decoded

\* one call of Encode and the symmetric Decode of what it returned
SpecEncode == EncodeInit /\ [][EncodeNext]_vars

\* the reads a decoding callback chooses among; a raw String is read with the
\* length of s
ReadOps ==
    {SizedOp("Skip", Zero, 1), SizedOp("Skip", Zero, 3), NumOp("Bool", Zero),
     NumOp("Uint8", Zero), NumOp("Int16", Zero), SizedOp("Int", Zero, 3),
     SizedOp("Uint", Zero, 8), NumOp("VarUint", Zero), NumOp("VarInt", Zero),
     StrOp("String", StrAA), StrOp("Bytes", StrA),
     Op("FixString", Zero, 1, <<>>, <<>>),
     Op("FixBytes", Zero, 8, <<>>, <<>>), StrOp("VarString", <<>>),
     StrOp("VarBytes", <<>>),
     Op("DelString", Zero, 0, <<>>, Nul), Op("DelBytes", Zero, 0, <<>>, <<>>),
     StrOp("Tail", <<>>), StrOp("UseLittleEndian", <<>>),
     SizedOp("Uint", Zero, 5), SizedOp("Int", Zero, 0),
     Op("DelString", Zero, 0, <<>>, <<>>), Op("DelString", Zero, 0, <<>>, StrAA)}

\* the inputs of Decode: nothing, two bytes, a varint cut short, a prefixed
\* and delimited string, a length prefix with the top bit set, a delimiter
\* twice, a delimiter that overlaps itself
Inputs ==
    {<<>>, <<42, 84>>, <<128>>, <<2, 102, 0, 111>>,
     <<255, 255, 255, 255, 255, 255, 255, 255, 1>>, <<102, 0, 111, 0>>,
     <<98, 97, 97, 97>>}

DecodeInit ==
    /\ PoolInit
    /\ pool.gen = 0
    /\ th = <<>>
    /\ call = <<>>
    /\ cb = <<>>
    /\ epc = "idle"
    /\ ecur = 0
    /\ enc = <<>>
    /\ eres = <<>>
    /\ loc = <<>>
    /\ dpc = "read"
    /\ dcur = 1
    /\ \E bytes \in Inputs : dec = NewDecoder(bytes)
    /\ got = <<>>
    /\ dres = "none"
    /\ StoreIdle

\* fn makes the read op
ReadAny(op) ==
    /\ dpc = "read"
    /\ dcur <= MaxReads
    /\ LET r == DecOp(dec, op)
       IN  /\ dec' = r.d
           /\ got' = <<r.v>>
           /\ dpc' = IF r.d.panic THEN "panic" ELSE "read"
    /\ dcur' = dcur + 1
    /\ UNCHANGED <<pool, heap, refs, last, th, storeVars, call, cb, epc, ecur, enc, eres,
                   loc, dres>>

\* fn returns ret: Decode returns, and the deferred dec.Reset(nil) runs
Returned(ret) ==
    /\ dpc = "read"
    /\ dres' = DecodeReturns(ret, dec)
    /\ last' = Seen(ret, dec)
    /\ dec' = NewDecoder(<<>>)
    /\ dpc' = "done"
    /\ UNCHANGED <<pool, heap, refs, th, storeVars, call, cb, epc, ecur, enc, eres, loc,
                   dcur, got>>

DecodeNext ==
    \/ \E op \in ReadOps : ReadAny(op)
    \/ \E ret \in Returns : Returned(ret)

\* one call of Decode with a callback that reads as it likes
SpecDecode == DecodeInit /\ [][DecodeNext]_vars

(***************************************************************************)
(* Properties of Encode and Decode                                         *)
(***************************************************************************)

\* the values the callback was given to write, call by call
WrittenValues == [i \in 1 .. Len(cb) |-> Written(cb[i].w)]

\* every Int, Uint and length prefix of the callback has a width of 1, 2, 4 or 8
WidthsValid ==
    \A i \in 1 .. Len(cb) :
        cb[i].w.k \in {"Int", "Uint", "FixString", "FixBytes"}
            => cb[i].w.n \in {1, 2, 4, 8}

\* every delimiter of the callback is not empty and occurs in its payload
\* followed by the delimiter only at the end, and Tail is the last call
Framed ==
    \A i \in 1 .. Len(cb) :
        /\ cb[i].w.k \in {"DelString", "DelBytes"}
               => /\ cb[i].w.d # <<>>
                  /\ Index(cb[i].w.s \o cb[i].w.d, cb[i].w.d) = Len(cb[i].w.s)
        /\ cb[i].w.k = "Tail" => i = Len(cb)

\* every delimiter of the callback is not empty
DelimitersSet ==
    \A i \in 1 .. Len(cb) :
        cb[i].w.k \in {"DelString", "DelBytes"} => cb[i].w.d # <<>>

\* C5 as stated: for any sequence of primitive writes of valid widths (and
\* delimiters that are not empty), the symmetric Decode of the bytes Encode
\* produced returns exactly the values written and ends with no error and no
\* remaining bytes.
RoundTripOfAnyWrites ==
    (dpc \in {"done", "panic"} /\ Deterministic(cb) /\ WidthsValid
     /\ DelimitersSet)
        => /\ dpc = "done"
           /\ dres = NoErr
           /\ got = WrittenValues

\* C5 as amended: for any sequence of primitive writes of valid widths in
\* which every delimiter is not empty and does not occur in its payload
\* followed by the delimiter before the payload's end, and in which Tail is
\* the last write, the symmetric Decode of the bytes Encode produced returns
\* exactly the values written and ends with no error and no remaining bytes.
RoundTripOfFramedWrites ==
    (dpc \in {"read", "done", "panic"} /\ Deterministic(cb) /\ WidthsValid
     /\ Framed)
        => /\ dpc # "panic"
           /\ dec.err = NoErr
           /\ got = SubSeq(WrittenValues, 1, Len(got))
           /\ dpc = "done" => dres = NoErr /\ Len(got) = Len(cb) /\ last.rem = 0

\* an Int64 of the least value, written after a Skip into a pooled
\* destination, came back whole
WitnessRoundTripExtreme ==
    /\ dpc = "done"
    /\ dres = NoErr
    /\ Len(refs) = 1
    /\ Len(cb) = MaxOps
    /\ \E i \in 1 .. Len(cb) : cb[i] = Same(NumOp("Int64", MinInt64))
    /\ \E i \in 1 .. Len(cb) : got[i] = WordValue(MinInt64)

\* C6: for a deterministic callback the second run of fn ends with the
\* destination exactly exhausted: the cursor has advanced over as many bytes as
\* the first run counted, and no call has panicked for lack of room.
CountedLengthIsWrittenLength ==
    /\ (epc = "write" /\ Deterministic(cb))
           => /\ enc.off <= loc.length
              /\ Len(enc.mem) = loc.length
              /\ ecur > Len(cb) => enc.off = loc.length /\ BufLen(enc) = 0
    /\ (epc = "panic" /\ ecur > 0) => ~Deterministic(cb)
    /\ (epc = "done" /\ eres.err = NoErr /\ Deterministic(cb))
           => /\ eres.n = loc.length
              /\ call.fn = "Encode" => Len(eres.buf) = eres.n

\* a var-prefixed string after a Skip has been written into a pooled destination
WitnessCountedAndWritten ==
    /\ epc = "write"
    /\ ecur > Len(cb)
    /\ Deterministic(cb)
    /\ loc.ref # zeroRef
    /\ \E i \in 1 .. Len(cb) : cb[i].w.k = "VarString" /\ cb[i].w.s = Foo
    /\ enc.off = 12

\* C7: when the first run of fn returns an error or leaves the sticky error
\* set, Encode returns nil, the zero Ref and that error, having borrowed
\* nothing, made no destination and run fn once.
CountFailureReturnsAtOnce ==
    (epc # "count" /\ (loc.ret1 # NoErr \/ loc.err1 # NoErr))
        => /\ epc = "done"
           /\ eres = Failed(IF loc.ret1 # NoErr THEN loc.ret1 ELSE loc.err1)
           /\ loc.fns = 1
           /\ ~loc.made
           /\ pool = NewPool /\ heap = <<>> /\ refs = <<>>

\* the first run counted nine bytes for a Pool and left ErrNumberOverflow
WitnessCountOverflow ==
    /\ epc = "done"
    /\ call.pool
    /\ loc.ret1 = NoErr
    /\ loc.err1 = ErrNumberOverflow
    /\ Len(cb) = 2
    /\ cb[1] = Same(SizedOp("Skip", Zero, 8))
    /\ cb[2].c = SizedOp("Int", FromInt(128), 1)

\* C8: when Encode returns an error, the Ref returned is the zero Ref and no
\* descriptor is lent: every descriptor it borrowed is back in its size class
\* with generation 0.
ErrorReturnReleases ==
    (epc = "done" /\ eres.err # NoErr)
        => /\ eres.ref = zeroRef
           /\ eres.nil
           /\ \A i \in 1 .. Len(refs) : ~refs[i].held
           /\ \A b \in DOMAIN heap : heap[b].gen = 0 /\ b \in Free

\* the sticky error was set in the second run only, with a pooled destination
WitnessWritePassOverflow ==
    /\ epc = "done"
    /\ eres.err = ErrNumberOverflow
    /\ loc.fns = 2
    /\ loc.ref # zeroRef
    /\ Len(refs) = 1
    /\ last.op = "Release"

\* C9: Decode returns ErrRemainingBytes exactly when fn returned nil, no sticky
\* error is set and a byte is unread, and nil exactly when fn returned nil, no
\* sticky error is set and no byte is unread.
RemainingBytesIffUnread ==
    dpc = "done"
        => /\ dres = ErrRemainingBytes
                  <=> (last.ret = NoErr /\ last.err = NoErr /\ last.rem > 0)
           /\ dres = NoErr
                  <=> (last.ret = NoErr /\ last.err = NoErr /\ last.rem = 0)

\* one byte of two was read and fn returned nil
WitnessOneByteUnread ==
    /\ dpc = "done"
    /\ dres = ErrRemainingBytes
    /\ dcur = 2
    /\ last.rem = 1
    /\ got = <<WordValue(FromInt(42))>>

\* C10: Decode returns the error of fn whatever the sticky error and the unread
\* bytes are, otherwise the sticky error whatever the unread bytes are, and
\* ErrRemainingBytes only when there is neither.
ErrorPrecedence ==
    dpc = "done"
        => /\ last.ret # NoErr => dres = last.ret
           /\ (last.ret = NoErr /\ last.err # NoErr) => dres = last.err
           /\ dres = ErrRemainingBytes => (last.ret = NoErr /\ last.err = NoErr)

\* fn returned io.EOF with a sticky error set and bytes unread
WitnessCallbackErrorFirst ==
    /\ dpc = "done"
    /\ last.ret = EOF
    /\ last.err = ErrInvalidSize
    /\ last.rem > 0
    /\ dres = EOF

\* C11: once the Decoder's error is set, a read returns the zero or empty
\* value and leaves the cursor and the error as they are, and Decode returns
\* that error when fn returns nil.
StickyDecoderReadsNothing ==
    [][(dpc = "read" /\ dec.err # NoErr)
           => /\ dpc' # "panic"
              /\ dpc' = "read" => /\ dec'.buf = dec.buf
                                  /\ dec'.err = dec.err
                                  /\ got' \in {got, <<NoValue>>}
              /\ (dpc' = "done" /\ last'.ret = NoErr) => dres' = dec.err]_vars

\* a VarString was read after Int(3) had set ErrInvalidSize, and fn returned nil
WitnessReadAfterError ==
    /\ dpc = "done"
    /\ dcur = 3
    /\ last.ret = NoErr
    /\ last.err = ErrInvalidSize
    /\ last.rem = 4
    /\ got = <<NoValue>>
    /\ dres = ErrInvalidSize

\* C12: once the Encoder's error is set, a write leaves the length counted, the
\* cursor, the destination bytes and the error as they are; the counting pass
\* is then the last, and Measure and Encode return that error when fn returns
\* nil.
StickyEncoderWritesNothing ==
    [][(epc \in {"count", "write"} /\ enc.err # NoErr)
           => /\ epc' \in {epc, "done"}
              /\ epc' = epc => /\ enc'.len = enc.len
                               /\ enc'.off = enc.off
                               /\ enc'.mem = enc.mem
                               /\ enc'.err = enc.err
              /\ (Counted(NoErr) \/ Wrote(NoErr)) => eres' = Failed(enc.err)]_vars

\* Measure returned the ErrNumberOverflow the first of two writes had set
WitnessMeasureAfterError ==
    /\ epc = "done"
    /\ call.fn = "Measure"
    /\ Len(cb) = 2
    /\ cb[1].c = SizedOp("Int", FromInt(128), 1)
    /\ cb[2].c = SizedOp("Skip", Zero, 8)
    /\ loc.ret1 = NoErr
    /\ eres = Failed(ErrNumberOverflow)

\* the width of the fixed-width number the call op writes, 0 when it writes none
Width(op) ==
    CASE op.k \in {"Int", "Uint"} -> op.n
      [] op.k \in {"Int8", "Uint8"} -> 1
      [] op.k \in {"Int16", "Uint16"} -> 2
      [] op.k \in {"Int32", "Uint32"} -> 4
      [] op.k \in {"Int64", "Uint64"} -> 8
      [] OTHER -> 0

\* the number of op is that of its low Width(op) bytes: as a signed number it
\* lies in [-2^(8*size-1), 2^(8*size-1)-1], as an unsigned one in [0, 2^(8*size)-1]
InRange(op) ==
    IF op.k \in {"Int", "Int8", "Int16", "Int32", "Int64"}
    THEN SignExtend(op.w, Width(op)) = op.w
    ELSE ZeroExtend(op.w, Width(op)) = op.w

\* C13: Encode of Int and Uint writes of widths 1, 2, 4 and 8, with fn
\* returning nil, fails with ErrNumberOverflow exactly when a number of width
\* 1, 2 or 4 is out of the range of its width, and then returns nil and the
\* zero Ref.
OverflowIffOutOfRange ==
    (epc = "done" /\ call.fn = "Encode" /\ Deterministic(cb) /\ WidthsValid
     /\ eres.err # EOF)
        => /\ eres.err = ErrNumberOverflow
               <=> \E i \in 1 .. Len(cb) :
                       Width(cb[i].w) \in {1, 2, 4} /\ ~InRange(cb[i].w)
           /\ eres.err \in {NoErr, ErrNumberOverflow}
           /\ eres.err # NoErr => eres = Failed(eres.err)

\* Encode with a Pool of Int(-129, 1) after eight bytes failed
WitnessInt8Underflow ==
    /\ epc = "done"
    /\ call.pool
    /\ cb = <<Same(SizedOp("Skip", Zero, 8)), Same(SizedOp("Int", FromInt(-129), 1))>>
    /\ eres = Failed(ErrNumberOverflow)
    /\ refs = <<>>

\* C14: Encode of a callback that writes an Int or Uint of a size other than
\* 1, 2, 4 and 8, and returns nil, fails with ErrInvalidSize and returns nil and
\* the zero Ref.
InvalidSizeFailsEncode ==
    (epc = "done" /\ call.fn = "Encode" /\ Deterministic(cb) /\ loc.ret1 = NoErr
     /\ eres.err # EOF
     /\ \E i \in 1 .. Len(cb) :
            cb[i].w.k \in {"Int", "Uint"} /\ cb[i].w.n \notin {1, 2, 4, 8})
        => eres = Failed(ErrInvalidSize)

\* C15: Decoder.Int and Decoder.Uint of a size other than 1, 2, 4 and 8 set
\* ErrInvalidSize, return 0 and leave the cursor, whatever input remains.
InvalidSizeFailsRead ==
    [][\A op \in ReadOps :
           (ReadAny(op) /\ dec.err = NoErr /\ op.k \in {"Int", "Uint"}
            /\ op.n \notin {1, 2, 4, 8})
               => /\ dec'.err = ErrInvalidSize
                  /\ dec'.buf = dec.buf
                  /\ got' = <<NoValue>>]_vars

\* C16: Encode of a callback that writes a DelString or DelBytes with an empty
\* delimiter, and returns nil, fails with ErrEmptyDelimiter and returns nil and
\* the zero Ref.
EmptyDelimiterFailsEncode ==
    (epc = "done" /\ call.fn = "Encode" /\ Deterministic(cb) /\ loc.ret1 = NoErr
     /\ eres.err # EOF
     /\ \E i \in 1 .. Len(cb) :
            cb[i].w.k \in {"DelString", "DelBytes"} /\ cb[i].w.d = <<>>)
        => eres = Failed(ErrEmptyDelimiter)

\* C17: Decoder.DelString and Decoder.DelBytes with an empty delimiter set
\* ErrEmptyDelimiter, return the empty value and leave the cursor, whatever
\* input remains.
EmptyDelimiterFailsRead ==
    [][\A op \in ReadOps :
           (ReadAny(op) /\ dec.err = NoErr /\ op.k \in {"DelString", "DelBytes"}
            /\ op.d = <<>>)
               => /\ dec'.err = ErrEmptyDelimiter
                  /\ dec'.buf = dec.buf
                  /\ got' = <<NoValue>>]_vars

\* a read with an empty delimiter before four unread bytes
WitnessEmptyDelimiterRead ==
    /\ dpc = "read"
    /\ dcur = 2
    /\ dec.err = ErrEmptyDelimiter
    /\ dec.buf = <<102, 0, 111, 0>>
    /\ got = <<NoValue>>

\* the offsets at which sep lies in buf
Occurrences(buf, sep) ==
    {i \in 0 .. (Len(buf) - Len(sep)) : SubSeq(buf, i + 1, i + Len(sep)) = sep}

\* C20: Decoder.DelString and Decoder.DelBytes with a delimiter that is not
\* empty return the bytes before the first occurrence of the delimiter in the
\* remaining input and move the cursor just past that occurrence; when there
\* is no occurrence they set ErrBufferTooShort and leave the cursor.
DelimitedReadStopsAtFirst ==
    [][\A op \in ReadOps :
           (ReadAny(op) /\ dec.err = NoErr /\ op.k \in {"DelString", "DelBytes"}
            /\ op.d # <<>>)
               => IF Occurrences(dec.buf, op.d) = {}
                  THEN /\ dec'.err = ErrBufferTooShort
                       /\ dec'.buf = dec.buf
                       /\ got' = <<NoValue>>
                  ELSE \E i \in Occurrences(dec.buf, op.d) :
                           /\ \A j \in Occurrences(dec.buf, op.d) : i <= j
                           /\ dec'.err = NoErr
                           /\ got' = <<BytesValue(SubSeq(dec.buf, 1, i))>>
                           /\ dec'.buf = SubSeq(dec.buf, i + Len(op.d) + 1,
                                                Len(dec.buf))]_vars

\* of "f\x00o\x00" the read returned "f" and left "o\x00"
WitnessTruncatedAtEmbedded ==
    /\ dpc = "read"
    /\ dcur = 2
    /\ dec.err = NoErr
    /\ got = <<BytesValue(<<102>>)>>
    /\ dec.buf = <<111, 0>>

\* the size low bytes of the number x, most significant first, or least
\* significant first when little
Fixed(x, size, little) ==
    [k \in 1 .. size |-> IF little THEN x[k] ELSE x[size + 1 - k]]

\* the wire format of the call op in the byte order given
Wire(op, little) ==
    CASE op.k \in {"None", "UseLittleEndian"} -> <<>>
      [] op.k = "Skip" -> [i \in 1 .. op.n |-> 0]
      [] op.k = "Bool" -> IF op.w # Zero THEN <<1>> ELSE <<0>>
      [] Width(op) > 0 -> Fixed(op.w, Width(op), little)
      [] op.k = "Float32" -> Fixed(op.w, 4, little)
      [] op.k = "Float64" -> Fixed(op.w, 8, little)
      [] op.k = "VarInt" -> PutVarint(op.w)
      [] op.k = "VarUint" -> PutUvarint(op.w)
      [] op.k \in {"String", "Bytes", "Tail"} -> op.s
      [] op.k \in {"FixString", "FixBytes"} ->
             Fixed(FromInt(Len(op.s)), op.n, little) \o op.s
      [] op.k \in {"VarString", "VarBytes"} ->
             PutUvarint(FromInt(Len(op.s))) \o op.s
      [] op.k \in {"DelString", "DelBytes"} -> op.s \o op.d

\* the callback has called UseLittleEndian before its call i
LittleAt(i) == \E j \in 1 .. (i - 1) : cb[j].w.k = "UseLittleEndian"

RECURSIVE WireUpTo(_)
\* the wire format of the first i calls of the callback
WireUpTo(i) ==
    IF i = 0 THEN <<>> ELSE WireUpTo(i - 1) \o Wire(cb[i].w, LittleAt(i))

\* C19: the bytes Encode returns hold every fixed-width number most significant
\* byte first when it is written before UseLittleEndian and least significant
\* byte first when written after it, and every varint the same either way;
\* the symmetric reads, UseLittleEndian among them, return the values written.
ByteOrderFromSwitchOn ==
    /\ (epc = "done" /\ call.fn = "Encode" /\ eres.err = NoErr
        /\ Deterministic(cb) /\ WidthsValid)
           => eres.buf = WireUpTo(Len(cb))
    /\ (dpc = "done" /\ Deterministic(cb) /\ WidthsValid /\ Framed
        /\ LittleAt(Len(cb) + 1))
           => got = WrittenValues

\* the least Int16 written after UseLittleEndian is 0x00 0x80 and was read back
WitnessLittleEndianInt16 ==
    /\ dpc = "done"
    /\ cb = <<Same(StrOp("UseLittleEndian", <<>>)), Same(NumOp("Int16", MinInt16))>>
    /\ eres.buf = <<0, 128>>
    /\ got = <<NoValue, WordValue(MinInt16)>>

\* C18: EncodeInto returns 0 and ErrBufferTooShort exactly when the first run
\* of fn succeeds and counts more than len(dst), and then fn has run once and
\* the Encoder never had dst; when it returns no error for a deterministic
\* callback, n is the length counted, dst[0:n] is the encoding and the rest of
\* dst is as it was.
IntoTooShortIffLonger ==
    (epc = "done" /\ call.fn = "EncodeInto")
        => /\ eres.err = ErrBufferTooShort
               <=> /\ loc.ret1 = NoErr
                   /\ loc.err1 = NoErr
                   /\ loc.length > Len(call.buf)
           /\ eres.err = ErrBufferTooShort
               => eres = Failed(ErrBufferTooShort) /\ loc.fns = 1
           /\ (eres.err = NoErr /\ Deterministic(cb) /\ WidthsValid)
               => /\ eres.n = loc.length
                  /\ eres.n <= Len(call.buf)
                  /\ call.nil \/ Len(eres.buf) = Len(call.buf)
                  /\ call.nil \/ SubSeq(eres.buf, 1, eres.n) = WireUpTo(Len(cb))
                  /\ call.nil \/ \A i \in (eres.n + 1) .. Len(call.buf) :
                                     eres.buf[i] = call.buf[i]

\* three counted bytes did not fit a dst of two
WitnessIntoTooShort ==
    /\ epc = "done"
    /\ call.fn = "EncodeInto"
    /\ Len(call.buf) = 2
    /\ loc.length = 3
    /\ loc.fns = 1
    /\ eres = Failed(ErrBufferTooShort)

\* the length prefix the read op reads from the Decoder d: the Decoder after
\* the prefix and the prefix itself
Prefix(d, op) ==
    IF op.k \in {"FixString", "FixBytes"} THEN DecUint(d, op.n) ELSE DecVarUint(d)

\* C21: a FixString, FixBytes, VarString or VarBytes whose length prefix, taken
\* as the unsigned 64-bit value it is, exceeds the number of bytes that follow
\* it, sets ErrBufferTooShort, returns the empty value and does not panic.
PrefixBeyondInputFails ==
    [][\A op \in ReadOps :
           (/\ ReadAny(op)
            /\ dec.err = NoErr
            /\ op.k \in {"FixString", "FixBytes", "VarString", "VarBytes"}
            /\ Prefix(dec, op).d.err = NoErr
            /\ ULt(FromInt(Len(Prefix(dec, op).d.buf)), Prefix(dec, op).v.w))
               => /\ dec'.err = ErrBufferTooShort
                  /\ got' = <<NoValue>>
                  /\ ~dec'.panic
                  /\ dpc' = "read"]_vars

(***************************************************************************)
(* buffer.go: the chunked Buffer.  Offsets and lengths are ints small      *)
(* enough that no sum of the model overflows.                              *)
(***************************************************************************)
\* the bytes a Buffer holds at most
MaxBytes == 12
\* the calls made on one Buffer
MaxBufOps == 3
\* what every byte of a caller's slice holds before a read fills it
CallerByte == 85

ErrInvalidOffset == "invalid offset"

\* the element of a set of one element; The({e(x) : x \in {d}}) is e(d) with d
\* evaluated once
The(S) == CHOOSE x \in S : TRUE

\* io.SeekStart, io.SeekCurrent, io.SeekEnd
SeekStart == 0
SeekCurrent == 1
SeekEnd == 2

\* NewBuffer(pool, alloc): a zero Buffer of the bufferPool with pool, alloc
\* and an empty chunk list; mutex is 0 when unlocked, else the goroutine
NewBufferOf(alloc) ==
    [alloc |-> alloc, offset |-> 0, length |-> 0, chunks |-> <<>>, mutex |-> 0]

\* the Pool and the Buffer b as the methods of b see them
World(b) == [pool |-> pool, heap |-> heap, refs |-> refs, bf |-> b]

\* grow: b.pool.Borrow(b.alloc, false) and the append of the chunk; the
\* free-lists are empty while the Buffer lives, so sync.Pool.Get calls New
BorrowChunk(w) ==
    IF Allocates(w.bf.alloc)
    THEN [w EXCEPT !.bf.chunks =
                       Append(@, [buf |-> Make(w.bf.alloc), ref |-> zeroRef])]
    ELSE LET r == Borrowed(w.pool, w.heap, w.bf.alloc, 0)
         IN  [pool |-> r.pool, heap |-> r.heap,
              refs |-> Append(w.refs, Lent(r.ref)),
              bf |-> [w.bf EXCEPT !.chunks =
                          Append(@, [buf |-> Stale(w.bf.alloc), ref |-> r.ref])]]

RECURSIVE AppendChunks(_, _)
\* grow: "append chunks"
AppendChunks(w, n) ==
    IF n <= 0 THEN w
    ELSE The({AppendChunks(w1, n - 1) : w1 \in {BorrowChunk(w)}})

BlocksFloor(length, alloc) == length \div alloc

\* grow: "determine blocks", the chunks wanted for length bytes
Blocks(length, alloc) == (length \div alloc) + 1

\* Buffer.grow(length)
grow(w, length) ==
    IF length <= w.bf.length THEN w
    ELSE LET n == Blocks(length, w.bf.alloc) - Len(w.bf.chunks)
         IN  [AppendChunks(w, n) EXCEPT !.bf.length = length]

RECURSIVE IterateFrom(_, _, _, _)
\* the loop of iterate at pos: the parts it yields, each the offset given to
\* fn, the chunk, the offset in the chunk and the length; b.chunks[idx]
\* panics when idx is out of range
IterateFrom(b, start, end, pos) ==
    IF pos >= end THEN <<>>
    ELSE LET idx == pos \div b.alloc
             off == pos % b.alloc
             len == Min(b.alloc - off, end - pos)
         IN  IF idx >= Len(b.chunks)
             THEN <<[loc |-> pos - start, idx |-> idx + 1, off |-> off,
                     len |-> 0, panic |-> TRUE]>>
             ELSE <<[loc |-> pos - start, idx |-> idx + 1, off |-> off,
                     len |-> len, panic |-> FALSE]>>
                      \o The({IterateFrom(b, start, end, next) :
                                  next \in {pos + len}})

\* Buffer.iterate(start, end, fn): the parts fn is called with
iterate(b, start, end) == IterateFrom(b, start, end, start)

\* iterate panicked after the parts before the last
Panicked(parts) == \E i \in 1 .. Len(parts) : parts[i].panic

\* the chunks after bs is stored in the part f
StorePart(chunks, f, bs) ==
    IF f.panic THEN chunks
    ELSE [chunks EXCEPT ![f.idx].buf =
              [i \in 1 .. Len(chunks[f.idx].buf) |->
                  IF i > f.off /\ i <= f.off + f.len
                  THEN bs[i - f.off] ELSE chunks[f.idx].buf[i]]]

RECURSIVE ZeroParts(_, _, _)
\* write: "zero gap", fn applied to the parts from the i-th
ZeroParts(chunks, parts, i) ==
    IF i > Len(parts) THEN chunks
    ELSE The({ZeroParts(stored, parts, i + 1) :
                 stored \in {StorePart(chunks, parts[i], Make(parts[i].len))}})

RECURSIVE CopyParts(_, _, _, _)
\* write: "write data", copy(chunk, buf[loc:]) on the parts from the i-th
CopyParts(chunks, parts, buf, i) ==
    IF i > Len(parts) THEN chunks
    ELSE The({CopyParts(stored, parts, buf, i + 1) :
                 stored \in {StorePart(chunks, parts[i], Rest(buf, parts[i].loc))}})

ZeroGapSkipped(chunks, parts) == chunks

\* write: "zero gap"
ZeroGap(chunks, parts) == ZeroParts(chunks, parts, 1)

\* Buffer.write(off, buf): the world after it, the error and whether it
\* panicked
write(w, off, buf) ==
    IF off < 0 THEN [w |-> w, err |-> ErrInvalidOffset, panic |-> FALSE]
    ELSE The({
             The({
                 The({
                     The({[w |-> [w1 EXCEPT !.bf.chunks =
                                     IF Panicked(gap) THEN zeroed
                                     ELSE CopyParts(zeroed, parts, buf, 1)],
                           err |-> NoErr,
                           panic |-> Panicked(gap) \/ Panicked(parts)] :
                         parts \in {iterate(w1.bf, off, off + Len(buf))}}) :
                     zeroed \in {ZeroGap(w1.bf.chunks, gap)}}) :
                 gap \in {iterate(w1.bf, w.bf.length, off)}}) :
             w1 \in {grow(w, off + Len(buf))}})

\* the bytes of the part f
PartBytes(b, f) == SubSeq(b.chunks[f.idx].buf, f.off + 1, f.off + f.len)

RECURSIVE Gather(_, _, _, _)
\* read: copy(buf[loc:], chunk) on the parts from the i-th
Gather(b, parts, buf, i) ==
    IF i > Len(parts) \/ parts[i].panic THEN buf
    ELSE The({Gather(b, parts, filled, i + 1) :
                 filled \in {[k \in 1 .. Len(buf) |->
                                 IF k > parts[i].loc
                                    /\ k <= parts[i].loc + parts[i].len
                                 THEN PartBytes(b, parts[i])[k - parts[i].loc]
                                 ELSE buf[k]]}})

ReadLimitNone(b, off, len) == len

\* read: "limit read", the length of buf[:b.length-off]
ReadLimit(b, off, len) == IF off + len > b.length THEN b.length - off ELSE len

\* Buffer.read(off, buf) for a buf of len bytes: n, the error, the caller's
\* buf after the call and whether it panicked
read(b, off, len) ==
    LET buf == [i \in 1 .. len |-> CallerByte]
    IN  IF off < 0
        THEN [n |-> 0, err |-> ErrInvalidOffset, out |-> buf, panic |-> FALSE]
        ELSE IF off >= b.length
        THEN [n |-> 0, err |-> EOF, out |-> buf, panic |-> FALSE]
        ELSE LET n == ReadLimit(b, off, len)
             IN  The({[n |-> n, err |-> NoErr, out |-> Gather(b, parts, buf, 1),
                       panic |-> Panicked(parts)] :
                         parts \in {iterate(b, off, off + n)}})

SeekAnywhere(newOffset) == FALSE

\* Seek: newOffset < 0
SeekInvalid(newOffset) == newOffset < 0

\* Buffer.Seek(offset, whence): the Buffer after it and what it returns
BufferSeek(b, offset, whence) ==
    LET newOffset ==
            IF whence = SeekStart THEN offset
            ELSE IF whence = SeekCurrent THEN b.offset + offset
            ELSE IF whence = SeekEnd THEN b.length + offset
            ELSE 0
    IN  IF SeekInvalid(newOffset)
        THEN [b |-> b, ret |-> 0, err |-> ErrInvalidOffset]
        ELSE [b |-> [b EXCEPT !.offset = newOffset], ret |-> newOffset,
              err |-> NoErr]

AdvanceNot(b, n) == b

\* Buffer.Write: "adjust offset"
Advance(b, n) == [b EXCEPT !.offset = @ + n]

\* Buffer.Write(buf)
BufferWrite(w, buf) ==
    The({IF r.err # NoErr \/ r.panic
         THEN [w |-> r.w, n |-> 0, err |-> r.err, panic |-> r.panic]
         ELSE [w |-> [r.w EXCEPT !.bf = Advance(@, Len(buf))], n |-> Len(buf),
               err |-> NoErr, panic |-> FALSE] :
             r \in {write(w, w.bf.offset, buf)}})

\* Buffer.WriteAt(buf, off)
BufferWriteAt(w, buf, off) ==
    The({[w |-> r.w, n |-> IF r.err # NoErr \/ r.panic THEN 0 ELSE Len(buf),
          err |-> r.err, panic |-> r.panic] :
             r \in {write(w, off, buf)}})

\* Buffer.Read(buf) for a buf of len bytes
BufferRead(b, len) ==
    The({[b |-> IF r.err # NoErr \/ r.panic THEN b ELSE Advance(b, r.n),
          n |-> IF r.err # NoErr THEN 0 ELSE r.n, err |-> r.err, out |-> r.out,
          panic |-> r.panic] :
             r \in {read(b, b.offset, len)}})

\* Buffer.ReadAt(buf, off) for a buf of len bytes
BufferReadAt(b, len, off) ==
    The({[b |-> b, n |-> IF r.err # NoErr THEN 0 ELSE r.n, err |-> r.err,
          out |-> r.out, panic |-> r.panic] :
             r \in {read(b, off, len)}})

RangeLimitNone(b, offset, length) == length

\* Range: "limit length"
RangeLimit(b, offset, length) ==
    IF offset + length > b.length THEN b.length - offset ELSE length

\* Buffer.Range(offset, length, fn): the calls of fn, each with the offset and
\* the data it is given
BufferRange(b, offset, length) ==
    IF offset < 0 THEN <<>>
    ELSE LET len == RangeLimit(b, offset, length)
         IN  The({[i \in 1 .. Len(parts) |->
                     [offset |-> parts[i].loc, idx |-> parts[i].idx,
                      data |-> IF parts[i].panic THEN <<>>
                               ELSE PartBytes(b, parts[i]),
                      panic |-> parts[i].panic]] :
                         parts \in {iterate(b, offset, offset + len)}})

\* the place in refs of the Ref ref that is held
RefAt(rs, ref) ==
    CHOOSE i \in 1 .. Len(rs) : rs[i].gen = ref.gen /\ rs[i].buf = ref.buf

RECURSIVE ReleaseChunks(_, _, _)
\* Buffer.Release: "release refs", from the i-th chunk; a panic of Ref.Release
\* ends the loop
ReleaseChunks(w, chunks, i) ==
    IF i > Len(chunks) THEN [w |-> w, panic |-> ""]
    ELSE IF chunks[i].ref = zeroRef THEN ReleaseChunks(w, chunks, i + 1)
    ELSE LET r == Released(w.pool, w.heap, chunks[i].ref)
             j == RefAt(w.refs, chunks[i].ref)
         IN  The({IF r.panic # "" THEN [w |-> w1, panic |-> r.panic]
                  ELSE ReleaseChunks(w1, chunks, i + 1) :
                      w1 \in {[w EXCEPT !.pool = r.pool, !.heap = r.heap,
                                        !.refs[j].held = @ /\ r.panic # "",
                                        !.refs[j].calls = @ + 1]}})

\* Buffer.Release: *b = Buffer{}
ZeroBuffer == NewBufferOf(0)

\* Buffer.Release()
BufferRelease(w) ==
    The({IF r.panic # "" THEN r
         ELSE [w |-> [r.w EXCEPT !.bf = ZeroBuffer], panic |-> ""] :
             r \in {ReleaseChunks(w, w.bf.chunks, 1)}})

(***************************************************************************)
(* One goroutine calling a Buffer: every method holds the mutex from its   *)
(* first statement to its return, so a call is one step.                   *)
(***************************************************************************)
\* the chunk sizes: the one of TestBuffer, which Borrow allocates, and the
\* smallest one Borrow takes from the Pool
Allocs == {3, MinPooled}

\* what is written
Payloads == {<<>>, <<1>>, <<2, 3, 4>>}

\* WriteAt(buf, off)
WriteAts == {<<(<<1>>), 8>>, <<(<<2, 3, 4>>), 2>>, <<(<<1>>), -1>>}

\* Seek(offset, whence)
Seeks ==
    {<<-1, SeekStart>>, <<5, SeekStart>>, <<-1, SeekCurrent>>, <<1, SeekCurrent>>,
     <<-2, SeekEnd>>, <<7, 3>>}

\* the lengths of the slices given to Read
ReadLens == {2, 4}

\* ReadAt(buf, off), by the length of buf
ReadAts == {<<2, -1>>, <<4, 0>>, <<4, 8>>, <<0, 1>>}

\* Range(offset, length, fn)
Ranges == {<<-1, 4>>, <<0, 11>>, <<2, 5>>, <<1, 0>>}

\* the Buffer is in use: Release has not zeroed it
Live == bf # <<>> /\ bf.alloc # 0

\* the bound of the model lets the Buffer reach end bytes
Fits(end) ==
    /\ end <= MaxBytes
    /\ \/ end <= bf.length
       \/ Allocates(bf.alloc)
       \/ Len(heap) + Blocks(end, bf.alloc) - Len(bf.chunks) <= MaxBufs

\* the call can be made
CanCall == Live /\ bf.mutex = 0 /\ bcall.nth < MaxBufOps

\* the positions a write of len bytes at off is given to fill
Targets(off, len) == off .. (off + len - 1)

BufferInit ==
    /\ PoolInit
    /\ th = <<>>
    /\ call = <<>>
    /\ cb = <<>>
    /\ epc = "idle"
    /\ ecur = 0
    /\ enc = <<>>
    /\ eres = <<>>
    /\ dpc = "idle"
    /\ dcur = 0
    /\ dec = <<>>
    /\ got = <<>>
    /\ dres = "none"
    /\ loc = <<>>
    /\ \E alloc \in Allocs : bf = NewBufferOf(alloc)
    /\ bcall = [op |-> "NewBuffer", nth |-> 0]
    /\ marks = {}
    /\ bth = <<>>
    /\ ar = <<>>
    /\ frags = <<>>

\* what the calls of the Buffer leave alone
BufferFrame ==
    UNCHANGED <<last, th, call, cb, epc, ecur, enc, eres, dpc, dcur, dec, got,
                dres, loc, bth, ar, frags>>

\* b.Seek(offset, whence)
CallSeek(offset, whence) ==
    /\ CanCall
    /\ \E r \in {BufferSeek(bf, offset, whence)} :
           /\ r.b.offset <= MaxBytes
           /\ bf' = r.b
           /\ bcall' = [op |-> "Seek", nth |-> bcall.nth + 1, offset |-> offset,
                        whence |-> whence, ret |-> r.ret, err |-> r.err]
    /\ UNCHANGED <<pool, heap, refs, marks>>
    /\ BufferFrame

\* b.Write(buf)
CallWrite(buf) ==
    /\ CanCall
    /\ Fits(bf.offset + Len(buf))
    /\ \E r \in {BufferWrite(World(bf), buf)} :
           /\ pool' = r.w.pool
           /\ heap' = r.w.heap
           /\ refs' = r.w.refs
           /\ bf' = r.w.bf
           /\ marks' = IF r.err = NoErr /\ ~r.panic
                       THEN marks \cup Targets(bf.offset, Len(buf)) ELSE marks
           /\ bcall' = [op |-> "Write", nth |-> bcall.nth + 1, buf |-> buf,
                        off |-> bf.offset, n |-> r.n, err |-> r.err,
                        panic |-> r.panic]
    /\ BufferFrame

\* b.WriteAt(buf, off)
CallWriteAt(buf, off) ==
    /\ CanCall
    /\ Fits(off + Len(buf))
    /\ \E r \in {BufferWriteAt(World(bf), buf, off)} :
           /\ pool' = r.w.pool
           /\ heap' = r.w.heap
           /\ refs' = r.w.refs
           /\ bf' = r.w.bf
           /\ marks' = IF r.err = NoErr /\ ~r.panic
                       THEN marks \cup Targets(off, Len(buf)) ELSE marks
           /\ bcall' = [op |-> "WriteAt", nth |-> bcall.nth + 1, buf |-> buf,
                        off |-> off, n |-> r.n, err |-> r.err, panic |-> r.panic]
    /\ BufferFrame

\* b.Read(buf) with a buf of len bytes
CallRead(len) ==
    /\ CanCall
    /\ \E r \in {BufferRead(bf, len)} :
           /\ bf' = r.b
           /\ bcall' = [op |-> "Read", nth |-> bcall.nth + 1, len |-> len,
                        off |-> bf.offset, n |-> r.n, err |-> r.err,
                        out |-> r.out, panic |-> r.panic]
    /\ UNCHANGED <<pool, heap, refs, marks>>
    /\ BufferFrame

\* b.ReadAt(buf, off) with a buf of len bytes
CallReadAt(len, off) ==
    /\ CanCall
    /\ \E r \in {BufferReadAt(bf, len, off)} :
           /\ bf' = r.b
           /\ bcall' = [op |-> "ReadAt", nth |-> bcall.nth + 1, len |-> len,
                        off |-> off, n |-> r.n, err |-> r.err, out |-> r.out,
                        panic |-> r.panic]
    /\ UNCHANGED <<pool, heap, refs, marks>>
    /\ BufferFrame

\* b.Range(offset, length, fn)
CallRange(offset, length) ==
    /\ CanCall
    /\ bcall' = [op |-> "Range", nth |-> bcall.nth + 1, offset |-> offset,
                 length |-> length, fns |-> BufferRange(bf, offset, length)]
    /\ UNCHANGED <<pool, heap, refs, bf, marks>>
    /\ BufferFrame

\* b.Release()
CallRelease ==
    /\ Live
    /\ bf.mutex = 0
    /\ \E r \in {BufferRelease(World(bf))} :
           /\ pool' = r.w.pool
           /\ heap' = r.w.heap
           /\ refs' = r.w.refs
           /\ bf' = r.w.bf
           /\ bcall' = [op |-> "Release", nth |-> bcall.nth + 1,
                        chunks |-> Len(bf.chunks), panic |-> r.panic]
    /\ UNCHANGED marks
    /\ BufferFrame

BufferNext ==
    \/ \E a \in Seeks : CallSeek(a[1], a[2])
    \/ \E buf \in Payloads : CallWrite(buf)
    \/ \E a \in WriteAts : CallWriteAt(a[1], a[2])
    \/ \E len \in ReadLens : CallRead(len)
    \/ \E a \in ReadAts : CallReadAt(a[1], a[2])
    \/ \E a \in Ranges : CallRange(a[1], a[2])
    \/ CallRelease

\* one Buffer from NewBuffer to Release, called by one goroutine
SpecBuffer == BufferInit /\ [][BufferNext]_vars

(***************************************************************************)
(* Properties of the Buffer                                                *)
(***************************************************************************)
\* the byte of the Buffer b at position p
ByteAt(b, p) == b.chunks[(p \div b.alloc) + 1].buf[(p % b.alloc) + 1]

\* the bytes of the Buffer b from position from up to, and without, to
Content(b, from, to) == [k \in 1 .. (to - from) |-> ByteAt(b, from + k - 1)]

\* C22: every position below Length() that no write was given to fill holds
\* 0, and Read and ReadAt return 0 for it, also in chunks taken from the Pool
\* with stale bytes.
UnwrittenReadsZero ==
    Live =>
        /\ \A p \in 0 .. (bf.length - 1) : p \notin marks => ByteAt(bf, p) = 0
        /\ bcall.op \in {"Read", "ReadAt"}
               => \A k \in 1 .. bcall.n :
                      (bcall.off + k - 1) \notin marks => bcall.out[k] = 0

\* ReadAt returned four bytes of a gap that lies in a chunk of the Pool
WitnessGapReadFromPooledChunk ==
    /\ Live
    /\ bf.alloc = MinPooled
    /\ Len(bf.chunks) > 0
    /\ bf.chunks[1].ref # zeroRef
    /\ bcall.op = "ReadAt"
    /\ bcall.n = 4
    /\ \A k \in 1 .. bcall.n : (bcall.off + k - 1) \notin marks
    /\ bcall.out = <<0, 0, 0, 0>>
    /\ \E p \in marks : p >= 4

\* C23: between NewBuffer and Release the length is at most alloc times the
\* number of chunks, and no step makes the length or the number of chunks
\* smaller.
LengthWithinChunks ==
    /\ [](Live => bf.length <= bf.alloc * Len(bf.chunks))
    /\ [][(Live /\ Live')
              => /\ bf'.length >= bf.length
                 /\ Len(bf'.chunks) >= Len(bf.chunks)
                 /\ bf'.alloc = bf.alloc]_vars

\* a second write has grown a Buffer of chunks of 3 bytes from one byte to 5
\* bytes in 2 chunks
WitnessGrownAcrossChunks ==
    /\ Live
    /\ bf.alloc = 3
    /\ bf.length = 5
    /\ Len(bf.chunks) = 2
    /\ bcall.op = "WriteAt"
    /\ bcall.nth = 2
    /\ 0 \in marks

\* the whole chunks of alloc bytes that hold length bytes
Ceil(length, alloc) == (length + alloc - 1) \div alloc

\* C24: a write that extends the Buffer to a new length leaves it with as many
\* chunks as hold that length and no more, also when the length is a multiple
\* of alloc.
ChunksExactlyAsNeeded ==
    [][(Live /\ Live' /\ bf'.length > bf.length)
           => Len(bf'.chunks) = Ceil(bf'.length, bf'.alloc)]_vars

\* the offset Seek(offset, whence) asks for in the Buffer b
SeekTarget(b, offset, whence) ==
    IF whence = SeekStart THEN offset
    ELSE IF whence = SeekCurrent THEN b.offset + offset
    ELSE b.length + offset

\* C25: Seek with SeekStart, SeekCurrent or SeekEnd sets the cursor to offset,
\* cursor+offset or length+offset and returns it, and when that is negative
\* returns ErrInvalidOffset and leaves the cursor; WriteAt and ReadAt with a
\* negative offset return ErrInvalidOffset and leave the Buffer as it was.
SeekSetsOrRejects ==
    [][/\ \A a \in Seeks :
              (CallSeek(a[1], a[2]) /\ a[2] \in {SeekStart, SeekCurrent, SeekEnd})
                  => IF SeekTarget(bf, a[1], a[2]) < 0
                     THEN /\ bcall'.err = ErrInvalidOffset
                          /\ bf' = bf
                     ELSE /\ bcall'.err = NoErr
                          /\ bcall'.ret = SeekTarget(bf, a[1], a[2])
                          /\ bf' = [bf EXCEPT !.offset = SeekTarget(bf, a[1], a[2])]
       /\ \A a \in WriteAts :
              (CallWriteAt(a[1], a[2]) /\ a[2] < 0)
                  => /\ bcall'.err = ErrInvalidOffset
                     /\ bcall'.n = 0
                     /\ bf' = bf
                     /\ marks' = marks
                     /\ UNCHANGED <<pool, heap, refs>>
       /\ \A a \in ReadAts :
              (CallReadAt(a[1], a[2]) /\ a[2] < 0)
                  => /\ bcall'.err = ErrInvalidOffset
                     /\ bcall'.n = 0
                     /\ bcall'.out = [k \in 1 .. a[1] |-> CallerByte]
                     /\ bf' = bf]_vars

\* Seek(-2, io.SeekEnd) on a Buffer of one byte failed and left the cursor
\* at the end
WitnessSeekBeforeStart ==
    /\ Live
    /\ bcall.op = "Seek"
    /\ bcall.whence = SeekEnd
    /\ bcall.offset = -2
    /\ bcall.err = ErrInvalidOffset
    /\ bf.length = 1
    /\ bf.offset = 1

\* C26: ReadAt returns 0 and io.EOF when off is at or past Length(); when
\* fewer than len(buf) bytes lie from off to Length() it returns their number
\* and exactly these bytes; it changes no byte of buf from n on.
ReadAtStopsAtLength ==
    [][\A a \in ReadAts :
           (CallReadAt(a[1], a[2]) /\ a[2] >= 0)
               => /\ a[2] >= bf.length
                      => bcall'.n = 0 /\ bcall'.err = EOF
                  /\ a[2] < bf.length
                      => /\ bcall'.err = NoErr
                         /\ bcall'.n = Min(a[1], bf.length - a[2])
                         /\ SubSeq(bcall'.out, 1, bcall'.n)
                                = Content(bf, a[2], a[2] + bcall'.n)
                  /\ \A k \in (bcall'.n + 1) .. a[1] : bcall'.out[k] = CallerByte
                  /\ Len(bcall'.out) = a[1]
                  /\ bf' = bf]_vars

\* ReadAt of four bytes at offset 8 of a Buffer of 9 bytes in pooled chunks
\* returned the one byte there and left the other three of buf alone
WitnessReadAtTruncated ==
    /\ Live
    /\ bf.alloc = MinPooled
    /\ bf.length = 9
    /\ bcall.op = "ReadAt"
    /\ bcall.len = 4
    /\ bcall.off = 8
    /\ bcall.n = 1
    /\ bcall.err = NoErr
    /\ bcall.out = <<1, CallerByte, CallerByte, CallerByte>>

RECURSIVE Joined(_, _)
\* the data of the calls of fn from the i-th, one after the other
Joined(fns, i) ==
    IF i > Len(fns) THEN <<>> ELSE fns[i].data \o Joined(fns, i + 1)

\* the chunk that holds position p of the Buffer b
ChunkOf(b, p) == p \div b.alloc

\* C27: Range calls fn for the window from offset to the smaller of
\* offset+length and Length(): once for every chunk the window touches, in
\* ascending order, each time with the bytes of the window in that chunk and
\* their offset from the start of the window; the data joined is what ReadAt
\* returns for the window; a negative offset or an empty window gives no call.
RangeYieldsChunkFragments ==
    [][\A a \in Ranges :
           CallRange(a[1], a[2])
               => LET lo == a[1]
                      hi == Min(a[1] + a[2], bf.length)
                      fns == bcall'.fns
                  IN  IF lo < 0 \/ hi <= lo THEN fns = <<>>
                      ELSE /\ Len(fns) = ChunkOf(bf, hi - 1) - ChunkOf(bf, lo) + 1
                           /\ fns[1].offset = 0
                           /\ \A i \in 1 .. Len(fns) :
                                  /\ ~fns[i].panic
                                  /\ Len(fns[i].data) > 0
                                  /\ fns[i].data
                                         = Content(bf, lo + fns[i].offset,
                                                   lo + fns[i].offset
                                                      + Len(fns[i].data))
                                  /\ ChunkOf(bf, lo + fns[i].offset)
                                         = ChunkOf(bf, lo + fns[i].offset
                                                          + Len(fns[i].data) - 1)
                                  /\ i < Len(fns)
                                         => fns[i + 1].offset
                                                = fns[i].offset + Len(fns[i].data)
                           /\ Joined(fns, 1) = Content(bf, lo, hi)
                           /\ Joined(fns, 1)
                                  = SubSeq(BufferReadAt(bf, hi - lo, lo).out, 1,
                                           BufferReadAt(bf, hi - lo, lo).n)
                           /\ bf' = bf]_vars

\* Range(2, 5) on the five bytes 2 3 2 3 4 in chunks of 3 called fn with the
\* one byte left of the first chunk and then with the two of the second
WitnessRangeAcrossChunks ==
    /\ Live
    /\ bf.alloc = 3
    /\ bf.length = 5
    /\ bcall.op = "Range"
    /\ bcall.offset = 2
    /\ bcall.length = 5
    /\ Len(bcall.fns) = 2
    /\ bcall.fns[1].offset = 0
    /\ bcall.fns[1].data = <<2>>
    /\ bcall.fns[2].offset = 1
    /\ bcall.fns[2].data = <<3, 4>>

(***************************************************************************)
(* Goroutines calling one Buffer concurrently: a call locks the mutex,     *)
(* does the work of its body in one or two steps and unlocks when it       *)
(* returns.                                                                *)
(***************************************************************************)
\* goroutines calling one Buffer
BufThreads == 2

Callers == 1 .. BufThreads

\* a call of the Buffer: the method and its arguments
BufCall(op, buf, len, off, whence) ==
    [op |-> op, buf |-> buf, len |-> len, off |-> off, whence |-> whence]

\* the calls the goroutines make; the two stream Writes have the payloads
\* 1 and 2 3 4
ConcCalls ==
    {BufCall("Write", <<1>>, 0, 0, 0), BufCall("Write", <<2, 3, 4>>, 0, 0, 0),
     BufCall("Read", <<>>, 2, 0, 0), BufCall("Seek", <<>>, 0, 1, SeekCurrent),
     BufCall("WriteAt", <<5>>, 0, 8, 0), BufCall("ReadAt", <<>>, 4, 0, 0),
     BufCall("Range", <<>>, 11, 0, 0)}

\* what the creator of the Buffer writes before the goroutines start
Seeds == {<<>>, <<7, 8>>}

\* what a call returns: n or the offset, the error, the caller's buf and the
\* calls of fn
BufRet(n, err, out, fns) == [n |-> n, err |-> err, out |-> out, fns |-> fns]

NoRet == BufRet(0, NoErr, <<>>, <<>>)

\* the whole call c made on the world w: the world after it and what it
\* returns
Do(w, c) ==
    IF c.op = "Write"
    THEN The({[w |-> r.w, ret |-> BufRet(r.n, r.err, <<>>, <<>>)] :
                 r \in {BufferWrite(w, c.buf)}})
    ELSE IF c.op = "WriteAt"
    THEN The({[w |-> r.w, ret |-> BufRet(r.n, r.err, <<>>, <<>>)] :
                 r \in {BufferWriteAt(w, c.buf, c.off)}})
    ELSE IF c.op = "Read"
    THEN The({[w |-> [w EXCEPT !.bf = r.b],
               ret |-> BufRet(r.n, r.err, r.out, <<>>)] :
                 r \in {BufferRead(w.bf, c.len)}})
    ELSE IF c.op = "ReadAt"
    THEN The({[w |-> w, ret |-> BufRet(r.n, r.err, r.out, <<>>)] :
                 r \in {BufferReadAt(w.bf, c.len, c.off)}})
    ELSE IF c.op = "Seek"
    THEN The({[w |-> [w EXCEPT !.bf = r.b],
               ret |-> BufRet(r.ret, r.err, <<>>, <<>>)] :
                 r \in {BufferSeek(w.bf, c.off, c.whence)}})
    ELSE [w |-> w, ret |-> BufRet(0, NoErr, <<>>, BufferRange(w.bf, c.off, c.len))]

\* a goroutine that has not called
Waiting == [pc |-> "idle", call |-> BufCall("none", <<>>, 0, 0, 0), ret |-> NoRet]

BufConcInit ==
    /\ last = NoCall
    /\ th = <<>>
    /\ call = <<>>
    /\ cb = <<>>
    /\ epc = "idle"
    /\ ecur = 0
    /\ enc = <<>>
    /\ eres = <<>>
    /\ dpc = "idle"
    /\ dcur = 0
    /\ dec = <<>>
    /\ got = <<>>
    /\ dres = "none"
    /\ loc = <<>>
    /\ \E alloc \in Allocs, seed \in Seeds :
           \E r \in {BufferWrite([pool |-> NewPool, heap |-> <<>>, refs |-> <<>>,
                                  bf |-> NewBufferOf(alloc)], seed)} :
               /\ pool = r.w.pool
               /\ heap = r.w.heap
               /\ refs = r.w.refs
               /\ bf = r.w.bf
               /\ bcall = [op |-> "go", nth |-> 1, w |-> r.w]
    /\ marks = {}
    /\ bth = [t \in Callers |-> Waiting]
    /\ ar = <<>>
    /\ frags = <<>>

\* what the steps of the goroutines leave alone
BufConcFrame ==
    UNCHANGED <<last, th, call, cb, epc, ecur, enc, eres, dpc, dcur, dec, got,
                dres, loc, bcall, marks, ar, frags>>

MutexFreeAlways(b) == TRUE

\* b.mutex.Lock() returns: no goroutine holds the mutex
MutexFree(b) == b.mutex = 0

\* goroutine t calls c: b.mutex.Lock()
BLock(t, c) ==
    /\ bth[t].pc = "idle"
    /\ MutexFree(bf)
    /\ bf' = [bf EXCEPT !.mutex = t]
    /\ bth' = [bth EXCEPT ![t] = [pc |-> "locked", call |-> c, ret |-> NoRet]]
    /\ UNCHANGED <<pool, heap, refs>>
    /\ BufConcFrame

\* goroutine t in Write, Read or Seek: b.write(b.offset, buf), b.read(b.offset,
\* buf) or the computation of newOffset, with the cursor as it is now
BFirst(t) ==
    LET c == bth[t].call
    IN  /\ bth[t].pc = "locked"
        /\ c.op \in {"Write", "Read", "Seek"}
        /\ IF c.op = "Write"
           THEN \E r \in {write(World(bf), bf.offset, c.buf)} :
                    /\ pool' = r.w.pool
                    /\ heap' = r.w.heap
                    /\ refs' = r.w.refs
                    /\ bf' = r.w.bf
                    /\ bth' = [bth EXCEPT ![t].pc = "adjust",
                                          ![t].ret = BufRet(Len(c.buf), r.err,
                                                            <<>>, <<>>)]
           ELSE IF c.op = "Read"
           THEN \E r \in {read(bf, bf.offset, c.len)} :
                    /\ bth' = [bth EXCEPT ![t].pc = "adjust",
                                          ![t].ret = BufRet(r.n, r.err, r.out,
                                                            <<>>)]
                    /\ UNCHANGED <<pool, heap, refs, bf>>
           ELSE \E r \in {BufferSeek(bf, c.off, c.whence)} :
                    /\ bth' = [bth EXCEPT ![t].pc = "adjust",
                                          ![t].ret = BufRet(r.ret, r.err, <<>>,
                                                            <<>>)]
                    /\ UNCHANGED <<pool, heap, refs, bf>>
        /\ BufConcFrame

\* goroutine t in Write, Read or Seek: the return of the error, or "adjust
\* offset" and "set offset"
BSecond(t) ==
    LET c == bth[t].call
        ret == bth[t].ret
    IN  /\ bth[t].pc = "adjust"
        /\ IF ret.err # NoErr
           THEN /\ bth' = [bth EXCEPT ![t].pc = "unlock", ![t].ret.n = 0]
                /\ bf' = bf
           ELSE /\ bth' = [bth EXCEPT ![t].pc = "unlock"]
                /\ bf' = IF c.op = "Seek" THEN [bf EXCEPT !.offset = ret.n]
                         ELSE Advance(bf, ret.n)
        /\ UNCHANGED <<pool, heap, refs>>
        /\ BufConcFrame

\* goroutine t in WriteAt, ReadAt or Range: the body
BWhole(t) ==
    /\ bth[t].pc = "locked"
    /\ bth[t].call.op \in {"WriteAt", "ReadAt", "Range"}
    /\ \E r \in {Do(World(bf), bth[t].call)} :
           /\ pool' = r.w.pool
           /\ heap' = r.w.heap
           /\ refs' = r.w.refs
           /\ bf' = r.w.bf
           /\ bth' = [bth EXCEPT ![t].pc = "unlock", ![t].ret = r.ret]
    /\ BufConcFrame

\* goroutine t returns: the deferred b.mutex.Unlock()
BUnlock(t) ==
    /\ bth[t].pc = "unlock"
    /\ bf' = [bf EXCEPT !.mutex = 0]
    /\ bth' = [bth EXCEPT ![t].pc = "done"]
    /\ UNCHANGED <<pool, heap, refs>>
    /\ BufConcFrame

BufConcNext ==
    \E t \in Callers :
        \/ \E c \in ConcCalls : BLock(t, c)
        \/ BFirst(t)
        \/ BSecond(t)
        \/ BWhole(t)
        \/ BUnlock(t)

\* one Buffer called by BufThreads goroutines, one call each
SpecBufConc == BufConcInit /\ [][BufConcNext]_vars

\* the orders in which the goroutines can be put
Orders == {o \in [Callers -> Callers] : \A i, j \in Callers : o[i] = o[j] => i = j}

RECURSIVE Serially(_, _, _, _)
\* the calls of the goroutines made one after the other in the order o, from
\* the i-th, on the world w: the world at the end and what each call returned
Serially(w, o, i, rets) ==
    IF i > BufThreads THEN [w |-> w, rets |-> rets]
    ELSE The({Serially(r.w, o, i + 1, [rets EXCEPT ![o[i]] = r.ret]) :
                 r \in {Do(w, bth[o[i]].call)}})

\* what callers can see of the Buffer b
Visible(b) ==
    [length |-> b.length, offset |-> b.offset, bytes |-> Content(b, 0, b.length)]

\* every goroutine has returned
AllReturned == bth # <<>> /\ \A t \in Callers : bth[t].pc = "done"

\* C28: when concurrent calls of one Buffer have returned, the content, the
\* length, the cursor and what each call returned are those of the calls made
\* one after the other in some order; two stream Writes leave one payload
\* after the other.
CallsTakeEffectAtomically ==
    AllReturned =>
        \E o \in Orders :
            \E r \in {Serially(bcall.w, o, 1, [t \in Callers |-> NoRet])} :
                /\ Visible(bf) = Visible(r.w.bf)
                /\ \A t \in Callers : bth[t].ret = r.rets[t]

\* two goroutines wrote 1 and 2 3 4 after the bytes 7 8 and the Buffer holds
\* 7 8 2 3 4 1
WitnessTwoWritesSerial ==
    /\ AllReturned
    /\ bth[1].call = BufCall("Write", <<1>>, 0, 0, 0)
    /\ bth[2].call = BufCall("Write", <<2, 3, 4>>, 0, 0, 0)
    /\ Visible(bf) = [length |-> 6, offset |-> 6, bytes |-> <<7, 8, 2, 3, 4, 1>>]

\* C29: ReadAt and WriteAt leave the cursor where it is; Write moves it by the
\* number of bytes written; Read at a cursor below Length() returns the bytes
\* from the cursor, as many as buf holds and Length() allows, and moves the
\* cursor past them, and Read at a cursor at or past Length() returns io.EOF
\* and leaves the cursor.
CursorMovesWithStreamOnly ==
    [][/\ \A a \in ReadAts : CallReadAt(a[1], a[2]) => bf'.offset = bf.offset
       /\ \A a \in WriteAts : CallWriteAt(a[1], a[2]) => bf'.offset = bf.offset
       /\ \A buf \in Payloads :
              CallWrite(buf)
                  => /\ bcall'.err = NoErr
                     /\ bcall'.n = Len(buf)
                     /\ bf'.offset = bf.offset + Len(buf)
                     /\ Content(bf', bf.offset, bf.offset + Len(buf)) = buf
       /\ \A len \in ReadLens :
              CallRead(len)
                  => IF bf.offset >= bf.length
                     THEN /\ bcall'.err = EOF
                          /\ bcall'.n = 0
                          /\ bf' = bf
                     ELSE /\ bcall'.err = NoErr
                          /\ bcall'.n = Min(len, bf.length - bf.offset)
                          /\ SubSeq(bcall'.out, 1, bcall'.n)
                                 = Content(bf, bf.offset, bf.offset + bcall'.n)
                          /\ bf' = [bf EXCEPT !.offset = bf.offset + bcall'.n]]_vars

\* after Write of 2 3 4 and Seek(-2, io.SeekEnd), Read with a buf of four
\* bytes returned 3 4 and left the cursor at the end
WitnessReadToTheEnd ==
    /\ Live
    /\ bcall.op = "Read"
    /\ bcall.off = 1
    /\ bcall.len = 4
    /\ bcall.n = 2
    /\ bcall.out = <<3, 4, CallerByte, CallerByte>>
    /\ bf.offset = 3
    /\ bf.length = 3

(***************************************************************************)
(* arena.go: the Arena (NewArena, Get, Clone, Release).  The slices the    *)
(* Arena borrows are kept in mem in the order of refs; a fragment is a     *)
(* place in mem: the slice c, the offset at and the length len.            *)
(***************************************************************************)
\* Get and Clone calls on one Arena
MaxGets == 3
\* what the caller fills the i-th fragment with is FillByte + i
FillByte == 200

\* a nil slice
NilBuf == [c |-> 0, at |-> 0]

\* NewArena(pool, size); rel counts the calls of Release
NewArena(size) ==
    [size |-> size, len |-> 0, buf |-> NilBuf, refs |-> <<>>, mem |-> <<>>,
     rel |-> 0]

\* the Pool and the Arena a as the methods of a see them
ArenaWorld(a) == [pool |-> pool, heap |-> heap, refs |-> refs, ar |-> a]

\* a.pool.Borrow(len, zero) and the append to a.refs; the free-lists are empty
\* while the Arena lives, so sync.Pool.Get calls New
ArenaBorrow(w, len, zero) ==
    IF Allocates(len)
    THEN [w EXCEPT !.ar.mem = Append(@, Make(len)),
                   !.ar.refs = Append(@, zeroRef)]
    ELSE The({[pool |-> r.pool, heap |-> r.heap,
               refs |-> Append(w.refs, Lent(r.ref)),
               ar |-> [w.ar EXCEPT !.mem = Append(@, IF zero THEN Make(len)
                                                      ELSE Stale(len)),
                                   !.refs = Append(@, r.ref)]] :
                 r \in {Borrowed(w.pool, w.heap, len, 0)}})

\* len(a.buf)
BufLeft(a) == IF a.buf.c = 0 THEN 0 ELSE Len(a.mem[a.buf.c]) - a.buf.at

SlicedNot(buf, length) == buf

\* Get: a.buf = a.buf[length:]
Sliced(buf, length) == [buf EXCEPT !.at = @ + length]

\* the memory after bs is stored in the place f
StoreFrag(mem, f, bs) ==
    [mem EXCEPT ![f.c] = [i \in 1 .. Len(mem[f.c]) |->
                             IF i > f.at /\ i <= f.at + f.len
                             THEN bs[i - f.at] ELSE mem[f.c][i]]]

LengthenedWithin(a, length) ==
    IF length > a.size THEN a ELSE [a EXCEPT !.len = @ + length]

\* Get: a.len += length
Lengthened(a, length) == [a EXCEPT !.len = @ + length]

\* Arena.Length()
ArenaLength(a) == a.len

\* Arena.Get(length, zero): the world after it and the fragment returned
ArenaGet(w, length, zero) ==
    The({IF length = 0 THEN [w |-> w1, frag |-> [c |-> 0, at |-> 0, len |-> 0]]
         ELSE IF length > w1.ar.size
         THEN The({[w |-> w2,
                    frag |-> [c |-> Len(w2.ar.mem), at |-> 0, len |-> length]] :
                      w2 \in {ArenaBorrow(w1, length, zero)}})
         ELSE The({The({[w |-> [w2 EXCEPT
                                   !.ar.buf = Sliced(@, length),
                                   !.ar.mem = IF zero
                                              THEN StoreFrag(@, frag, Make(length))
                                              ELSE @],
                         frag |-> frag] :
                           frag \in {[c |-> w2.ar.buf.c, at |-> w2.ar.buf.at,
                                      len |-> length]}}) :
                      w2 \in {IF BufLeft(w1.ar) < length
                              THEN The({[w3 EXCEPT !.ar.buf =
                                            [c |-> Len(w3.ar.mem), at |-> 0]] :
                                           w3 \in {ArenaBorrow(w1, w1.ar.size,
                                                               FALSE)}})
                              ELSE w1}}) :
             w1 \in {[w EXCEPT !.ar = Lengthened(@, length)]}})

\* Arena.Clone(buf)
ArenaClone(w, buf) ==
    The({[w |-> IF Len(buf) = 0 THEN r.w
                ELSE [r.w EXCEPT !.ar.mem = StoreFrag(@, r.frag, buf)],
          frag |-> r.frag] :
             r \in {ArenaGet(w, Len(buf), FALSE)}})

ArenaReleaseFirst(w) ==
    The({[w |-> [r.w EXCEPT !.ar.rel = @ + 1], panic |-> r.panic] :
             r \in {ReleaseChunks(w, [i \in 1 .. Min(1, Len(w.ar.refs)) |->
                                         [ref |-> w.ar.refs[i]]], 1)}})

\* Arena.Release(): Ref.Release() on every Ref of a.refs, up to a panic
ArenaRelease(w) ==
    The({[w |-> [r.w EXCEPT !.ar.rel = @ + 1], panic |-> r.panic] :
             r \in {ReleaseChunks(w, [i \in 1 .. Len(w.ar.refs) |->
                                         [ref |-> w.ar.refs[i]]], 1)}})

\* Get(length, zero) as the test and the Decoder call it
Gets == {<<0, FALSE>>, <<3, FALSE>>, <<4, FALSE>>, <<4, TRUE>>, <<11, FALSE>>,
         <<11, TRUE>>}

\* Clone(buf)
Clones == {<<1, 2, 3>>}

\* the fragment sizes: one that Borrow allocates and one it takes from the
\* Pool
ArenaSizes == {6, 10}

ArenaInit ==
    /\ PoolInit
    /\ th = <<>>
    /\ call = <<>>
    /\ cb = <<>>
    /\ epc = "idle"
    /\ ecur = 0
    /\ enc = <<>>
    /\ eres = <<>>
    /\ dpc = "idle"
    /\ dcur = 0
    /\ dec = <<>>
    /\ got = <<>>
    /\ dres = "none"
    /\ loc = <<>>
    /\ bf = <<>>
    /\ bcall = <<>>
    /\ marks = {}
    /\ bth = <<>>
    /\ \E size \in ArenaSizes : ar = NewArena(size)
    /\ frags = <<>>

\* what the calls of the Arena leave alone
ArenaFrame ==
    UNCHANGED <<th, call, cb, epc, ecur, enc, eres, dpc, dcur, dec, got, dres,
                loc, bf, bcall, marks, bth>>

\* a.Get(length, zero)
CallGet(length, zero) ==
    /\ ar.rel = 0
    /\ Len(frags) < MaxGets
    /\ \E r \in {ArenaGet(ArenaWorld(ar), length, zero)} :
           /\ pool' = r.w.pool
           /\ heap' = r.w.heap
           /\ refs' = r.w.refs
           /\ ar' = r.w.ar
           /\ frags' = Append(frags, r.frag)
           /\ last' = [op |-> "Get", length |-> length, zero |-> zero]
    /\ ArenaFrame

\* a.Clone(buf)
CallClone(buf) ==
    /\ ar.rel = 0
    /\ Len(frags) < MaxGets
    /\ \E r \in {ArenaClone(ArenaWorld(ar), buf)} :
           /\ pool' = r.w.pool
           /\ heap' = r.w.heap
           /\ refs' = r.w.refs
           /\ ar' = r.w.ar
           /\ frags' = Append(frags, r.frag)
           /\ last' = [op |-> "Clone", length |-> Len(buf), zero |-> FALSE]
    /\ ArenaFrame

\* the caller fills the i-th fragment, as TestArena fills buf2
FillFrag(i) ==
    /\ ar.rel = 0
    /\ frags[i].len > 0
    /\ ar' = [ar EXCEPT !.mem = StoreFrag(@, frags[i],
                                          [k \in 1 .. frags[i].len |-> FillByte + i])]
    /\ ar' # ar
    /\ last' = [op |-> "Fill", frag |-> i]
    /\ UNCHANGED <<pool, heap, refs, frags>>
    /\ ArenaFrame

\* a.Release()
CallArenaRelease ==
    /\ ar.rel < MaxCalls
    /\ \E r \in {ArenaRelease(ArenaWorld(ar))} :
           /\ pool' = r.w.pool
           /\ heap' = r.w.heap
           /\ refs' = r.w.refs
           /\ ar' = r.w.ar
           /\ last' = [op |-> "ArenaRelease", panic |-> r.panic]
    /\ UNCHANGED frags
    /\ ArenaFrame

ArenaNext ==
    \/ \E g \in Gets : CallGet(g[1], g[2])
    \/ \E buf \in Clones : CallClone(buf)
    \/ \E i \in 1 .. Len(frags) : FillFrag(i)
    \/ CallArenaRelease

\* one Arena from NewArena to Release
SpecArena == ArenaInit /\ [][ArenaNext]_vars

(***************************************************************************)
(* Properties of the Arena                                                 *)
(***************************************************************************)
\* the bytes of the fragment f
FragBytes(a, f) == [k \in 1 .. f.len |-> a.mem[f.c][f.at + k]]

\* the fragments f and g share no byte
Apart(f, g) ==
    \/ f.len = 0
    \/ g.len = 0
    \/ f.c # g.c
    \/ f.at + f.len <= g.at
    \/ g.at + g.len <= f.at

\* the descriptor b lies in a free-list of the Pool
InPool(b) == \E num \in DOMAIN pool.pools :
                 \E k \in 1 .. Len(pool.pools[num]) : pool.pools[num][k] = b

\* the slice of ref is the caller's own or still lent under ref's generation
Kept(ref) ==
    \/ ref = zeroRef
    \/ /\ heap[ref.buf].gen = ref.gen
       /\ ~InPool(ref.buf)

\* C30: until Release the fragments Get and Clone returned lie inside the
\* slices the Arena borrowed and no two of them share a byte, the slices have
\* different descriptors none of which is back in the Pool, and a Get, a Clone
\* or a caller's write to one fragment leaves the bytes of every other
\* fragment as they were.
FragmentsDisjoint ==
    /\ []((ar # <<>> /\ ar.rel = 0) =>
            /\ \A i \in 1 .. Len(frags) :
                   /\ frags[i].len > 0 =>
                          /\ frags[i].c \in 1 .. Len(ar.mem)
                          /\ frags[i].at >= 0
                          /\ frags[i].at + frags[i].len <= Len(ar.mem[frags[i].c])
                   /\ \A j \in 1 .. Len(frags) :
                          i # j => Apart(frags[i], frags[j])
            /\ Len(ar.refs) = Len(ar.mem)
            /\ \A i \in 1 .. Len(ar.refs) :
                   /\ Kept(ar.refs[i])
                   /\ \A j \in 1 .. Len(ar.refs) :
                          (i # j /\ ar.refs[i] # zeroRef)
                              => ar.refs[i].buf # ar.refs[j].buf)
    /\ [][/\ \A i \in 1 .. Len(frags) :
                 FillFrag(i) =>
                     /\ FragBytes(ar', frags[i])
                            = [k \in 1 .. frags[i].len |-> FillByte + i]
                     /\ \A j \in 1 .. Len(frags) :
                            j # i => FragBytes(ar', frags[j])
                                         = FragBytes(ar, frags[j])
          /\ ((\E g \in Gets : CallGet(g[1], g[2]))
                  \/ (\E buf \in Clones : CallClone(buf)))
                 => \A j \in 1 .. Len(frags) :
                        FragBytes(ar', frags[j]) = FragBytes(ar, frags[j])]_vars

\* two fragments of one pooled slice and a third of the next slice; the second
\* was filled and the first still holds what the Pool's slice held
WitnessNeighbourFilled ==
    /\ ar # <<>>
    /\ ar.rel = 0
    /\ ar.size = 10
    /\ Len(frags) = 3
    /\ Len(ar.refs) = 2
    /\ ar.refs[1] # zeroRef
    /\ frags[1] = [c |-> 1, at |-> 0, len |-> 4]
    /\ frags[2] = [c |-> 1, at |-> 4, len |-> 4]
    /\ frags[3] = [c |-> 2, at |-> 0, len |-> 3]
    /\ last = [op |-> "Fill", frag |-> 2]
    /\ FragBytes(ar, frags[1]) = Stale(4)
    /\ FragBytes(ar, frags[2]) = <<202, 202, 202, 202>>
    /\ FragBytes(ar, frags[3]) = <<1, 2, 3>>

\* the sum of the lengths of the first n fragments requested
RECURSIVE Requested(_)
Requested(n) == IF n = 0 THEN 0 ELSE Requested(n - 1) + frags[n].len

\* C31: Length() is zero for a new Arena, every Get(length, zero) adds length
\* and every Clone(buf) adds len(buf) to it, whether the request is empty,
\* served from the current slice, from a new slice or from a slice of its own,
\* and nothing else changes it; so it always equals the sum of the lengths
\* requested so far.
LengthIsSumOfRequests ==
    /\ [](ar # <<>> => ArenaLength(ar) = Requested(Len(frags)))
    /\ [][/\ \A g \in Gets :
                 CallGet(g[1], g[2]) =>
                     /\ ArenaLength(ar') = ArenaLength(ar) + g[1]
                     /\ frags'[Len(frags')].len = g[1]
          /\ \A buf \in Clones :
                 CallClone(buf) =>
                     /\ ArenaLength(ar') = ArenaLength(ar) + Len(buf)
                     /\ frags'[Len(frags')].len = Len(buf)
          /\ ((\E i \in 1 .. Len(frags) : FillFrag(i)) \/ CallArenaRelease)
                 => ArenaLength(ar') = ArenaLength(ar)]_vars

\* an empty request, a request above the size and a request served from a
\* slice of the size: 15 bytes requested, two slices borrowed
WitnessLengthOfThreeKinds ==
    /\ ar # <<>>
    /\ ar.size = 10
    /\ Len(frags) = 3
    /\ frags[1].len = 0
    /\ frags[2] = [c |-> 1, at |-> 0, len |-> 11]
    /\ frags[3] = [c |-> 2, at |-> 0, len |-> 4]
    /\ Len(ar.refs) = 2
    /\ Len(ar.mem[2]) = 10
    /\ ArenaLength(ar) = 15

\* how often descriptor b occurs in the free-lists of the Pool
TimesInPool(b) ==
    Cardinality({<<num, k>> \in UNION {{num} \X (1 .. Len(pool.pools[num])) :
                                          num \in DOMAIN pool.pools} :
                     pool.pools[num][k] = b})

\* C32: when the first Release of an Arena has returned, it did not panic and
\* every Ref the Pool lent to the Arena, for a slice of the size or for a
\* slice of a request above the size, was released by exactly one Release
\* call: no Ref is held, each descriptor has generation zero and lies once in
\* a free-list.
ReleaseReturnsEveryChunk ==
    (ar # <<>> /\ ar.rel = 1) =>
        /\ last.op = "ArenaRelease"
        /\ last.panic = ""
        /\ \A j \in 1 .. Len(refs) :
               /\ ~refs[j].held
               /\ refs[j].calls = 1
               /\ heap[refs[j].buf].gen = 0
               /\ TimesInPool(refs[j].buf) = 1
        /\ \A i \in 1 .. Len(ar.refs) :
               ar.refs[i] # zeroRef =>
                   \E j \in 1 .. Len(refs) :
                       /\ refs[j].gen = ar.refs[i].gen
                       /\ refs[j].buf = ar.refs[i].buf

\* an Arena released after it borrowed a slice of the size, which two
\* fragments share, and a slice for a request above the size
WitnessBothChunksReleased ==
    /\ ar # <<>>
    /\ ar.rel = 1
    /\ ar.size = 10
    /\ Len(refs) = 2
    /\ Len(frags) = 3
    /\ frags[1] = [c |-> 1, at |-> 0, len |-> 4]
    /\ frags[2] = [c |-> 2, at |-> 0, len |-> 11]
    /\ frags[3] = [c |-> 1, at |-> 4, len |-> 4]
    /\ refs[1].buf # refs[2].buf
    /\ \A j \in 1 .. 2 : ~refs[j].held /\ TimesInPool(refs[j].buf) = 1

\* the Arena holds a Ref of a pooled slice
HoldsPooled(a) == \E i \in 1 .. Len(a.refs) : a.refs[i] # zeroRef

\* C33: a second Release of an Arena that holds a pooled slice panics with
\* "fpack: generation mismatch" and leaves the free-lists, the descriptors
\* and the number of successful releases of every Ref as they were.
SecondArenaReleasePanics ==
    [][(CallArenaRelease /\ ar.rel = 1 /\ HoldsPooled(ar)) =>
           /\ last'.op = "ArenaRelease"
           /\ last'.panic = "fpack: generation mismatch"
           /\ pool' = pool
           /\ heap' = heap
           /\ \A j \in 1 .. Len(refs) :
                  /\ ~refs'[j].held
                  /\ heap'[refs[j].buf].gen = 0
                  /\ TimesInPool(refs[j].buf) = 1]_vars

\* the second Release of an Arena whose first slice was allocated and whose
\* second slice was pooled: the zero Ref is passed over and the pooled Ref
\* panics
WitnessSecondReleasePanicked ==
    /\ ar # <<>>
    /\ ar.rel = 2
    /\ ar.size = 6
    /\ Len(ar.refs) = 2
    /\ ar.refs[1] = zeroRef
    /\ ar.refs[2] # zeroRef
    /\ last.op = "ArenaRelease"
    /\ last.panic = "fpack: generation mismatch"
    /\ heap[ar.refs[2].buf].gen = 0
    /\ TimesInPool(ar.refs[2].buf) = 1

(***************************************************************************)
(* Properties of the generation counter                                    *)
(***************************************************************************)
\* C34: a Borrow of a pooled length that has passed its atomic adds holds a
\* nonzero generation, also when the counter wrapped to zero at its first add
\* and whatever the other goroutines did meanwhile; the descriptor and the
\* Ref get that generation, and the first Release of a Ref, the one taken at
\* the wrap included, passes the compare-and-swap and does not panic.
GenerationNeverZero ==
    /\ [](\A t \in DOMAIN th :
              th[t].pc \in {"get", "set"} => th[t].gen # 0)
    /\ [](\A i \in 1 .. Len(refs) :
              /\ refs[i].gen # 0
              /\ refs[i].held => heap[refs[i].buf].gen = refs[i].gen)
    /\ [][\A t \in DOMAIN th :
              /\ TSet(t) => /\ heap'[th[t].buf].gen = th[t].gen
                            /\ refs'[Len(refs')].gen = th[t].gen
              /\ \A i \in 1 .. Len(refs) :
                     (TCas(t, i) /\ refs[i].held) => th'[t].pc = "put"]_vars

\* goroutine 1 read zero from the counter and has not yet added again;
\* goroutine 2 borrowed meanwhile with generation 1 and released its Ref
\* without a panic
WitnessBorrowAtWrap ==
    /\ DOMAIN th = Threads
    /\ th[1].pc = "retry"
    /\ th[1].gen = 0
    /\ th[2].pc = "idle"
    /\ pool.gen = 1
    /\ Len(refs) = 1
    /\ refs[1].gen = 1
    /\ ~refs[1].held
    /\ heap[refs[1].buf].gen = 0
    /\ refs[1].buf \in Free

(***************************************************************************)
(* Properties of the two passes                                            *)
(***************************************************************************)
\* C35: a call of Encode or EncodeInto that succeeds has run fn twice on the
\* same Encoder; the first run ended with Counting() true and the second with
\* Counting() false.
SecondPassWrites ==
    [][\A ret \in Returns :
           /\ Counted(ret) => (loc.fns = 1 /\ enc.nil)
           /\ (Wrote(ret) /\ eres'.err = NoErr) => (loc.fns = 2 /\ ~enc.nil)]_vars

\* the second run of fn on the Encoder e: the calls prog[i].w and those after
RECURSIVE WritePass(_, _, _)
WritePass(e, prog, i) ==
    IF i > Len(prog) THEN e
    ELSE The({WritePass(e1, prog, i + 1) : e1 \in {EncOp(e, prog[i].w)}})

\* buf.slice[0:len] of a descriptor of a Pool whose slices hold other bytes
OtherStale(len) == [i \in 1 .. len |-> (StaleByte + 1) % 256]

\* C36: the bytes a successful Encode returns in a slice of the Pool are the
\* bytes the same callback leaves in a slice of a Pool whose recycled slices
\* held other bytes; stated for the callbacks that make the same calls in
\* both passes.
OutputIgnoresStaleBytes ==
    [][\A ret \in Returns :
           (/\ Wrote(ret)
            /\ call.fn = "Encode"
            /\ Deterministic(cb)
            /\ eres'.err = NoErr
            /\ loc.ref # zeroRef)
               => eres'.buf = WritePass(Reset(NewEncoder, OtherStale(loc.length)),
                                        cb, 1).mem]_vars

(***************************************************************************)
(* encoderPool and decoderPool: call after call on the recycled Encoder    *)
(* and Decoder.  enc and dec are the instances the deferred functions put  *)
(* back; the next call gets them, or a new one, from sync.Pool.Get.        *)
(***************************************************************************)
\* the calls made one after another: Encode with a nil Pool, Measure, and
\* EncodeInto with slices of 0 and 2 bytes
RecycleCalls ==
    {Call("Encode", FALSE, FALSE, TRUE, <<>>),
     Call("Measure", FALSE, FALSE, TRUE, <<>>),
     Call("EncodeInto", FALSE, TRUE, FALSE, <<>>),
     Call("EncodeInto", FALSE, TRUE, FALSE, <<171, 205>>)}

\* what their callbacks do: the calls of SideElems and a number that
\* overflows in both passes
RecycleElems == SideElems \cup {Same(SizedOp("Int", FromInt(-32769), 2))}

\* a Decode call, in the place of call
DecodeCall == Call("Decode", FALSE, FALSE, TRUE, <<>>)

\* Decoder.Reset(buf) on the Decoder d
DecReset(d, buf) ==
    [d EXCEPT !.bo = "BigEndian", !.buf = buf, !.err = NoErr, !.panic = FALSE]

RecycleInit == Started(RecycleCalls)

\* no call is running
Quiet ==
    \/ epc \in {"done", "panic"}
    \/ epc = "idle" /\ dpc \in {"done", "panic"}

\* the call before switched to little-endian and ended with an error or a
\* panic, or was a Decode that ended so
AfterFailure ==
    IF epc = "idle" THEN dpc = "panic" \/ dres # NoErr
    ELSE /\ epc = "panic" \/ eres.err # NoErr
         /\ \E i \in 1 .. Len(cb) : cb[i].c.k = "UseLittleEndian"

\* encode and Measure, "borrow": enc := encoderPool.Get().(*Encoder), and fn
\* runs for the first time
Again(c) ==
    /\ Quiet
    /\ call' = c
    /\ cb' = <<>>
    /\ epc' = "count"
    /\ ecur' = 0
    /\ enc' \in {[enc EXCEPT !.panic = FALSE], NewEncoder}
    /\ eres' = Failed(NoErr)
    /\ loc' = Locals(0, zeroRef, FALSE, 1, NoErr, NoErr)
    /\ dpc' = "idle"
    /\ dcur' = 0
    /\ got' = <<>>
    /\ dres' = "none"
    /\ last' = [op |-> "Again", failed |-> AfterFailure]
    /\ UNCHANGED <<pool, heap, refs, th, storeVars, dec>>

\* Decode, "borrow": dec := decoderPool.Get().(*Decoder); dec.Reset(bytes)
DecodeAgain(bytes) ==
    /\ Quiet
    /\ call' = DecodeCall
    /\ cb' = <<>>
    /\ epc' = "idle"
    /\ ecur' = 0
    /\ eres' = Failed(NoErr)
    /\ loc' = Locals(0, zeroRef, FALSE, 1, NoErr, NoErr)
    /\ dec' \in {DecReset(dec, bytes), DecReset(NewDecoder(<<>>), bytes)}
    /\ dpc' = "read"
    /\ dcur' = 1
    /\ got' = <<>>
    /\ dres' = "none"
    /\ last' = [op |-> "DecodeAgain", failed |-> AfterFailure]
    /\ UNCHANGED <<pool, heap, refs, th, storeVars, enc>>

RecycleNext ==
    \/ \E el \in RecycleElems : Count(el)
    \/ \E ret \in Returns : Counted(ret)
    \/ Write
    \/ \E ret \in Returns : Wrote(ret)
    \/ \E op \in ReadOps : ReadAny(op)
    \/ \E ret \in Returns : Returned(ret)
    \/ \E c \in RecycleCalls : Again(c)
    \/ \E bytes \in Inputs : DecodeAgain(bytes)

\* calls of Encode, EncodeInto, Measure and Decode one after another
SpecRecycle == RecycleInit /\ [][RecycleNext]_vars

\* big-endian, no error, nothing counted or written
CleanEncoder(e) ==
    e.bo = "BigEndian" /\ e.err = NoErr /\ e.len = 0 /\ e.off = 0

\* C37: whatever the calls before did, a call of Encode, EncodeInto or
\* Measure starts its first run of fn, and Encode and EncodeInto their second
\* run, with a big-endian Encoder that has no error and length zero, and a
\* call of Decode starts with a big-endian Decoder that has no error and holds
\* the bytes given.
CallsStartClean ==
    /\ [](Quiet /\ epc # "idle" => CleanEncoder(enc) /\ enc.nil)
    /\ [][/\ \A c \in RecycleCalls :
                 Again(c) => CleanEncoder(enc') /\ enc'.nil
          /\ \A ret \in Returns :
                 (Counted(ret) /\ epc' = "write") => CleanEncoder(enc')
          /\ \A bytes \in Inputs :
                 DecodeAgain(bytes) =>
                     /\ dec'.bo = "BigEndian"
                     /\ dec'.err = NoErr
                     /\ dec'.buf = bytes]_vars

\* a call begins after a call that had switched to little-endian and failed
WitnessCleanAfterFailure ==
    /\ last = [op |-> "Again", failed |-> TRUE]
    /\ epc = "count"
    /\ cb = <<>>
    /\ enc = NewEncoder

(***************************************************************************)
(* The generation counter over a whole period: one caller borrowing as     *)
(* often as the counter has values.                                        *)
(***************************************************************************)
\* pooled borrows per run: one more than the nonzero values of the counter
WrapRefs == GenMod

\* the length borrowed
WrapLens == {77}

WrapNext ==
    \/ Borrow(WrapLens, WrapRefs)
    \/ \E i \in 1 .. Len(refs) : Release(i)

\* the pool under one caller through a whole period of the counter
SpecWrap == SeqInit /\ [][WrapNext]_vars

\* C38: a Release of a Ref that was already released, made while the Ref's
\* descriptor is lent to a later borrower, panics and leaves the descriptor
\* lent, however many Borrow calls lie in between.
StaleRefNeverReleasesLent ==
    [][\A i \in 1 .. Len(refs) :
           (/\ Release(i)
            /\ ~refs[i].held
            /\ refs[i].calls > 0
            /\ \E j \in Holders(refs[i].buf) : j # i)
               => /\ last'.panic = "fpack: generation mismatch"
                  /\ heap' = heap
                  /\ pool' = pool
                  /\ \A j \in Holders(refs[i].buf) : refs'[j].held]_vars

(***************************************************************************)
(* Buffer.Release beside the goroutines that call the Buffer.  Release     *)
(* does not lock b.mutex: its statements are steps that need no free       *)
(* mutex.  bcall holds where the Release call stands: the chunks its range *)
(* loop took from b.chunks and the index k of the next one.                *)
(***************************************************************************)
\* the Release call has not begun
NotReleasing == [op |-> "Release", pc |-> "idle", k |-> 1, chunks |-> <<>>]

BufRelInit ==
    /\ last = NoCall
    /\ th = <<>>
    /\ call = <<>>
    /\ cb = <<>>
    /\ epc = "idle"
    /\ ecur = 0
    /\ enc = <<>>
    /\ eres = <<>>
    /\ dpc = "idle"
    /\ dcur = 0
    /\ dec = <<>>
    /\ got = <<>>
    /\ dres = "none"
    /\ loc = <<>>
    /\ \E alloc \in Allocs, seed \in Seeds :
           \E r \in {BufferWrite([pool |-> NewPool, heap |-> <<>>, refs |-> <<>>,
                                  bf |-> NewBufferOf(alloc)], seed)} :
               /\ pool = r.w.pool
               /\ heap = r.w.heap
               /\ refs = r.w.refs
               /\ bf = r.w.bf
    /\ bcall = NotReleasing
    /\ marks = {}
    /\ bth = [t \in Callers |-> Waiting]
    /\ ar = <<>>
    /\ frags = <<>>

\* what the steps of Release leave alone
BufRelFrame ==
    UNCHANGED <<last, th, call, cb, epc, ecur, enc, eres, dpc, dcur, dec, got,
                dres, loc, marks, bth, ar, frags>>

\* Release: the range loop evaluates b.chunks
RRange ==
    /\ Live
    /\ bcall.pc = "idle"
    /\ bcall' = [bcall EXCEPT !.pc = "refs", !.chunks = bf.chunks]
    /\ UNCHANGED <<pool, heap, refs, bf>>
    /\ BufRelFrame

\* Release: chunk.ref.Release() of the next chunk
RRef ==
    /\ bcall.pc = "refs"
    /\ bcall.k <= Len(bcall.chunks)
    /\ \E r \in {ReleaseChunks(World(bf), <<bcall.chunks[bcall.k]>>, 1)} :
           /\ pool' = r.w.pool
           /\ heap' = r.w.heap
           /\ refs' = r.w.refs
           /\ bcall' = [bcall EXCEPT !.k = @ + 1,
                                     !.pc = IF r.panic = "" THEN "refs" ELSE "panic"]
    /\ UNCHANGED bf
    /\ BufRelFrame

\* Release: *b = Buffer{}
RZero ==
    /\ bcall.pc = "refs"
    /\ bcall.k > Len(bcall.chunks)
    /\ bf' = ZeroBuffer
    /\ bcall' = [bcall EXCEPT !.pc = "done"]
    /\ UNCHANGED <<pool, heap, refs>>
    /\ BufRelFrame

\* goroutine t goes on in a Buffer that Release has zeroed: with alloc zero
\* grow and iterate divide by zero, and the deferred Unlock finds a mutex
\* that is not locked; the call panics or returns
BGone(t) ==
    /\ ~Live
    /\ bth[t].pc \in {"locked", "adjust", "unlock"}
    /\ bth' \in {[bth EXCEPT ![t].pc = "panic"], [bth EXCEPT ![t].pc = "done"]}
    /\ UNCHANGED <<pool, heap, refs, bf>>
    /\ BufConcFrame

BufRelNext ==
    \/ RRange
    \/ RRef
    \/ RZero
    \/ \E t \in Callers :
           \/ Live /\ \E c \in ConcCalls : BLock(t, c)
           \/ Live /\ BFirst(t)
           \/ Live /\ BSecond(t)
           \/ Live /\ BWhole(t)
           \/ Live /\ BUnlock(t)
           \/ BGone(t)

\* one Buffer called by BufThreads goroutines while another releases it
SpecBufRelease == BufRelInit /\ [][BufRelNext]_vars

\* the positions the call c reads or writes in the Buffer b: for a write the
\* gap it zeroes and the bytes it stores
Span(b, c) ==
    CASE c.op = "Write" ->
             Min(b.length, b.offset) .. (b.offset + Len(c.buf) - 1)
      [] c.op = "WriteAt" -> Min(b.length, c.off) .. (c.off + Len(c.buf) - 1)
      [] c.op = "Read" -> b.offset .. (Min(b.offset + c.len, b.length) - 1)
      [] c.op \in {"ReadAt", "Range"} ->
             c.off .. (Min(c.off + c.len, b.length) - 1)
      [] OTHER -> {}

\* the chunks of b that hold these positions before the call grows b
Touched(b, c) ==
    {i \in 1 .. Len(b.chunks) : \E p \in Span(b, c) : p \div b.alloc = i - 1}

\* C39: when the body of a Write, WriteAt, Read, ReadAt or Range runs, the
\* Ref of every chunk it reads or writes is still lent: Release has not
\* returned it to the Pool.
BodiesTouchLentChunks ==
    [][\A t \in Callers :
           (Live /\ (BFirst(t) \/ BWhole(t))) =>
               \A i \in Touched(bf, bth[t].call) : Kept(bf.chunks[i].ref)]_vars
====
